---- MODULE Spec2Model ----
(***************************************************************************)
(* BaseCommerce event pipeline: outbox relay, engine worker and messaging  *)
(* worker over Redis Streams consumer groups and a PostgreSQL database.    *)
(*                                                                         *)
(* The specifications of the module:                                       *)
(*   EngineSpec   the engine worker (consume loop, reclaim pass, router,   *)
(*                stock and sales engines, processed-event keys)           *)
(*   RouterSpec   the engine worker fed with a sale, a stock update, an    *)
(*                unknown event type and an unparseable entry              *)
(*   RelaySpec    the outbox relay replicas (RelayFair adds fairness)      *)
(*   WaSpec       the messaging worker's loops and acknowledgements, with  *)
(*                its reclaim loop (WaFair adds fairness)                  *)
(*   HandlerSpec  the inbound and outbound handlers with their database    *)
(*                work (conversations, messages, opt-outs)                 *)
(*   OutboundSpec the outbound handler alone                               *)
(*   NotifySpec   the notification loop on the domain stream               *)
(*   StockSpec    the stock engine with quantities: stock facts, average   *)
(*                daily sales and the stock alert of one product           *)
(*   IngressSpec  the webhook's POST and GET endpoints and the envelope's  *)
(*                stream encoding, one call per behaviour                  *)
(*   TenantSpec   the stock and sales engines over the rows of two tenants *)
(*   RaceSpec     two engine workers handling sales of one product at once *)
(*   ShutdownSpec the relay and the engine worker around a shutdown signal *)
(*   StatusSpec   delivery status updates of the provider                  *)
(*   AutomationSpec the automation engine's detect and should_auto_reply, *)
(*                one call per behaviour                                   *)
(*                                                                         *)
(* Database model: READ COMMITTED.  Every session has a private write set  *)
(* (tx) that becomes visible to the others at commit and is discarded by   *)
(* rollback, by closing the session, or by a crash.  An insert on a unique *)
(* key that another open transaction has inserted waits for it.            *)
(***************************************************************************)
EXTENDS Integers, Sequences, FiniteSets, TLC

VARIABLES
    \* ---- domain stream events:materials and its consumer group "engines"
    stream,        \* sequence of event ids appended to the stream
    delivered,     \* number of entries already delivered with XREADGROUP ">"
    pel,           \* pending entries list: msg id -> [owner, idle]
    acked,         \* msg ids acknowledged with XACK
    \* ---- engine-owned tables (committed rows)
    processed,     \* engine_processed_events: set of event ids (primary key)
    salesFacts,    \* engine_sales_facts keys <<event, product>> (unique event_id)
    stockFacts,    \* engine_stock_facts keys <<event, product>> (unique event_id)
    alerts,        \* engine_stock_alerts: <<product, event>> -> number of active rows
    sugg,          \* engine_sales_suggestions: <<src, dst, event>> -> number of rows
    \* ---- engine worker threads
    pc,            \* control point of each worker
    batch,         \* messages of the current read / claim still to be handled
    tx,            \* uncommitted writes of the worker's session
    dirty,         \* the worker committed projection rows during this delivery
    crashedMsgs,   \* messages held by one worker alone when it crashed before XACK
    efaults,       \* number of exceptions and crashes of engine workers so far
    \* ---- outbox relay
    rowStatus,     \* event_outbox.status of each row ("absent": not inserted yet)
    published,     \* rows with published_at set (committed)
    rowLock,       \* row -> relay holding its FOR UPDATE lock, or NoOne
    rpc,           \* control point of each relay replica
    rbatch,        \* rows selected by the replica and not yet handled
    rpubIds,       \* published_ids of the running relay_batch
    faults,        \* a relay crashed or an append failed (history)
    \* ---- messaging worker
    waStream,      \* stream name -> sequence of envelopes
    waDelivered,   \* stream name -> number of entries delivered with ">"
    waPel,         \* stream name -> (msg id -> [owner, idle])
    waAcked,       \* stream name -> msg ids acknowledged
    waPc,          \* control point of each messaging worker's main loop
    waBatch,       \* messages read by the loop and not yet handled
    dlq,           \* bc:whatsapp:dlq entries
    msgRows,       \* whatsapp message rows (outbound), in insertion order
    domainEvents,  \* delivery_failed events published on events:materials
    failedSends,   \* outbound msg id -> number of failed provider sends (history)
    claimed,       \* stream name -> msg ids claimed by a reclaim pass (history)
    \* ---- messaging handlers (inbound_handler.py, outbound_handler.py)
    binding,       \* the tenant's binding: "none", "no_token" or "ok"
    convs,         \* whatsapp_conversations: phone -> "absent" or current_state
    optouts,       \* whatsapp_optouts: phones with a committed active row
    messages,      \* whatsapp_messages: the committed rows
    sess,          \* worker -> its database session (open transaction, new rows)
    bus,           \* events published on the domain stream: <<type, ref>> -> count
    result,        \* stream name -> (msg id -> what the handler returned) (history)
    calls,         \* outbound msg id -> what the provider answered (history)
    mfaults,       \* crashes of messaging workers so far
    \* ---- engine tables of one product, with their quantities
    stockRows,     \* engine_stock_facts: [ev, at, delta, after]
    saleRows,      \* engine_sales_facts: [ev, at, qty]
    alertRow,      \* engine_stock_alerts: the active rows of the product
    lastCompute,   \* what the last _compute_stock_alert read and decided (history)
    \* ---- one call of a function of the webhook receiver or of the envelope
    fx,            \* the calls made: [op, in, out]
    \* ---- engine tables of two tenants
    suggRows,      \* engine_sales_suggestions: [tenant, source, suggested, ...]
    handled,       \* the sale events handled so far, in order (history)
    \* ---- one relay process and one engine worker process with its two
    \* ---- threads, and the shutdown flag of each
    proc,
    \* ---- two engine workers handling sales of one product at once
    conc,
    \* ---- outbound message rows and the provider's status updates for them
    dlv            \* [status: provider id -> row status, log, events]

engineVars == <<stream, delivered, pel, acked, processed, salesFacts, stockFacts,
                alerts, sugg, pc, batch, tx, dirty, crashedMsgs, efaults>>
relayVars  == <<rowStatus, published, rowLock, rpc, rbatch, rpubIds, faults>>
waVars     == <<waStream, waDelivered, waPel, waAcked, waPc, waBatch, dlq, msgRows,
                domainEvents, failedSends, claimed>>
msgVars    == <<binding, convs, optouts, messages, sess, bus, result, calls, mfaults>>
tenantVars == <<suggRows, handled>>
lateVars   == <<proc, conc, dlv>>
calcVars   == <<stockRows, saleRows, alertRow, lastCompute, fx, tenantVars, lateVars>>
vars == <<engineVars, relayVars, waVars, msgVars, calcVars>>

(***************************************************************************)
(* Bounds of the model                                                     *)
(***************************************************************************)
\* entries appended to the domain stream by producers
MaxStream == 2
\* exceptions and crashes of engine workers in one behaviour
MaxEngineFaults == 1
\* rows of event_outbox
NumRows == 2
\* crashes of relay replicas in one behaviour
MaxRelayCrashes == 1
\* entries appended to each messaging stream
MaxWaStream == 1
\* inbound envelopes published by the webhook receiver
MaxInbound == 2
\* outbound envelopes published by the verticals' API
MaxApiOutbound == 2
\* crashes of messaging workers in one behaviour
MaxMsgCrashes == 1
\* domain events read by the notification loop
MaxVertical == 2
\* sale events of the product handled by the stock engine
MaxSales == 3

NoOne == "none"

Min(a, b) == IF a < b THEN a ELSE b

\* the first n elements of S in ascending order (LIMIT / COUNT of a query)
FirstN(S, n) == {r \in S : Cardinality({q \in S : q < r}) < n}

(***************************************************************************)
(* Event catalogue: the envelopes that producers put on the domain stream. *)
(*   1  sale_recorded, order 1, items p1 and p2                            *)
(*   2  sale_recorded, order 2, item p1                                    *)
(*   3  quote_converted (no projection write)                              *)
(*   4  customer_updated, an event type the engines' router does not know  *)
(*   5  an entry that cannot be parsed (payload is not JSON, or event_id   *)
(*      or tenant_id is missing or is no UUID)                             *)
(*   6  stock_updated (a receipt or an adjustment of product p1)           *)
(***************************************************************************)
Events == {1, 2, 3}
Products == {"p1", "p2"}

\* (variant: every event is dispatched as a sale)
AllSaleRecorded(e) == "sale_recorded"

EventType(e) ==
    IF e = 3 THEN "quote_converted"
    ELSE IF e = 4 THEN "customer_updated"
    ELSE IF e = 6 THEN "stock_updated"
    ELSE "sale_recorded"

\* parse_stream_message returns an envelope (json.loads, UUID(...) do not raise)
Parseable(e) == e # 5

Items(e) == IF e = 1 THEN {"p1", "p2"} ELSE IF e = 2 THEN {"p1"} ELSE {}
OrderOf(e) == e

Workers == {"w1", "w2"}

BATCH_SIZE == 10
RECLAIM_COUNT == 100

EmptyTx == [sales |-> {}, stock |-> {}, alerts |-> {}, sugg |-> {}, processed |-> {}]

AlertKeys == Products \X Events
SuggKeys == Products \X Products \X Events

(***************************************************************************)
(* Redis consumer group                                                    *)
(***************************************************************************)
\* XREADGROUP ">" : the next entries never delivered to the group
NewEntries(n) == (delivered + 1) .. Min(Len(stream), delivered + n)

\* XPENDING range (count entries) filtered by idle time
get_pending_messages ==
    {m \in FirstN(DOMAIN pel, RECLAIM_COUNT) : pel[m].idle}

SetToSeq(S) ==
    LET RECURSIVE build(_, _)
        build(T, acc) ==
            IF T = {} THEN acc
            ELSE LET m == CHOOSE x \in T : \A y \in T : x <= y
                 IN build(T \ {m}, Append(acc, m))
    IN build(S, <<>>)

ack_message(m) ==
    /\ acked' = acked \cup {m}
    /\ pel' = [k \in DOMAIN pel \ {m} |-> pel[k]]

(***************************************************************************)
(* Database sessions                                                       *)
(***************************************************************************)
VisibleSales(w) == salesFacts \cup tx[w].sales
VisibleStock(w) == stockFacts \cup tx[w].stock

db_commit(w) ==
    /\ processed' = processed \cup tx[w].processed
    /\ salesFacts' = salesFacts \cup tx[w].sales
    /\ stockFacts' = stockFacts \cup tx[w].stock
    /\ alerts' = [k \in AlertKeys |-> alerts[k] + IF k \in tx[w].alerts THEN 1 ELSE 0]
    /\ sugg' = [k \in SuggKeys |-> sugg[k] + IF k \in tx[w].sugg THEN 1 ELSE 0]
    /\ tx' = [tx EXCEPT ![w] = EmptyTx]

\* the session holds uncommitted projection rows
TxWrites(w) ==
    tx[w].sales # {} \/ tx[w].stock # {} \/ tx[w].alerts # {} \/ tx[w].sugg # {}

dbUnchanged == UNCHANGED <<processed, salesFacts, stockFacts, alerts, sugg>>

(***************************************************************************)
(* Engine repository (engines_core/persistence/repo.py)                    *)
(***************************************************************************)
\* record_sales_fact / record_stock_fact: the keys of event e that are not
\* stored yet (an existing fact makes the call return None)
NewFactKeys(w, e) == {<<e, p>> : p \in Items(e)} \ VisibleSales(w)

\* the unique index on event_id makes an insert wait for another open
\* transaction that inserted the same key
FactInsertWaits(w, keys) == \E o \in Workers \ {w} : keys \cap tx[o].sales # {}

\* upsert_stock_alert: the session sees an active alert of product p
AlertVisible(w, p, T) ==
    \E e \in Events : alerts[<<p, e>>] > 0 \/ <<p, e>> \in T

\* upsert_sales_suggestion: the session sees an active suggestion src -> dst
SuggVisible(w, src, dst, T) ==
    \E e \in Events : sugg[<<src, dst, e>>] > 0 \/ <<src, dst, e>> \in T

(***************************************************************************)
(* Stock engine: process_sale_recorded up to (not including) its commit.   *)
(* The tables start empty, so current stock after a sale is never above    *)
(* the minimum stock and _compute_stock_alert upserts an alert for every   *)
(* item whose sales fact was inserted.                                     *)
(***************************************************************************)
StockWrites(w, e) ==
    LET keys == NewFactKeys(w, e)
        prods == {k[2] : k \in keys}
    IN [sales |-> keys,
        stock |-> {<<e, p>> : p \in prods} \ VisibleStock(w),
        alerts |-> {<<p, e>> : p \in {q \in prods : ~AlertVisible(w, q, tx[w].alerts)}},
        sugg |-> {},
        processed |-> {}]

(***************************************************************************)
(* Sales engine: _update_product_associations over the visible facts.      *)
(***************************************************************************)
OrdersWith(F, p) == {OrderOf(k[1]) : k \in {f \in F : f[2] = p}}

CoOccurrences(F, p, q) ==
    Cardinality({o \in OrdersWith(F, p) : \E f \in F : OrderOf(f[1]) = o /\ f[2] = q})

\* frequency = co_occurrences / total_orders * 100 >= 20
Materialized(F, p, q) ==
    /\ q # p
    /\ CoOccurrences(F, p, q) > 0
    /\ CoOccurrences(F, p, q) * 100 >= 20 * Cardinality(OrdersWith(F, p))

SalesWrites(w, e) ==
    LET keys == NewFactKeys(w, e)
        F == VisibleSales(w) \cup keys
        pairs == {pq \in Items(e) \X Products : Materialized(F, pq[1], pq[2])}
    IN [sales |-> keys,
        stock |-> {},
        alerts |-> {},
        sugg |-> {<<pq[1], pq[2], e>> :
                    pq \in {x \in pairs : ~SuggVisible(w, x[1], x[2], tx[w].sugg)}},
        processed |-> {}]

TxAdd(w, wr) ==
    tx' = [tx EXCEPT ![w] = [sales |-> @.sales \cup wr.sales,
                             stock |-> @.stock \cup wr.stock,
                             alerts |-> @.alerts \cup wr.alerts,
                             sugg |-> @.sugg \cup wr.sugg,
                             processed |-> @.processed \cup wr.processed]]

\* the messages a worker has read or claimed and not finished
Held(w) == {batch[w][i] : i \in 1 .. Len(batch[w])}

CurMsg(w) == Head(batch[w])
CurEvent(w) == stream[CurMsg(w)]

redisUnchanged == UNCHANGED <<stream, delivered, pel, acked>>
calcUnchanged == UNCHANGED calcVars
relayUnchanged == UNCHANGED relayVars /\ calcUnchanged
msgUnchanged == UNCHANGED msgVars
waUnchanged == UNCHANGED waVars /\ msgUnchanged

(***************************************************************************)
(* Engine worker: consume_from_stream, reclaim_pending_messages and        *)
(* process_stream_message, one action per step between two database or     *)
(* Redis calls.                                                            *)
(*   idle -> check -> stock -> stock_commit -> sales -> sales_commit       *)
(*        -> mark -> commit -> ack ;  raised = the except branch           *)
(***************************************************************************)
StartBatch(w, msgs) ==
    /\ batch' = [batch EXCEPT ![w] = SetToSeq(msgs)]
    /\ pc' = [pc EXCEPT ![w] = "check"]

\* a producer (the relay, at least once) appends an envelope
Publish(e) ==
    /\ Len(stream) < MaxStream
    /\ stream' = Append(stream, e)
    /\ UNCHANGED <<delivered, pel, acked, pc, batch, tx, dirty, crashedMsgs, efaults>>
    /\ dbUnchanged /\ relayUnchanged /\ waUnchanged

\* consume_from_stream: read_from_stream(count=BATCH_SIZE)
Read(w) ==
    /\ pc[w] = "idle"
    /\ NewEntries(BATCH_SIZE) # {}
    /\ LET new == NewEntries(BATCH_SIZE) IN
        /\ delivered' = delivered + Cardinality(new)
        /\ pel' = [m \in DOMAIN pel \cup new |->
                     IF m \in new THEN [owner |-> w, idle |-> FALSE] ELSE pel[m]]
        /\ StartBatch(w, new)
    /\ UNCHANGED <<stream, acked, tx, dirty, crashedMsgs, efaults>>
    /\ dbUnchanged /\ relayUnchanged /\ waUnchanged

\* a pending entry has been idle for RECLAIM_IDLE_MS
Tick(m) ==
    /\ m \in DOMAIN pel
    /\ ~pel[m].idle
    /\ pel' = [pel EXCEPT ![m].idle = TRUE]
    /\ UNCHANGED <<stream, delivered, acked, pc, batch, tx, dirty, crashedMsgs, efaults>>
    /\ dbUnchanged /\ relayUnchanged /\ waUnchanged

\* reclaim_pending_messages: get_pending_messages, claim_messages (XCLAIM)
Reclaim(w) ==
    /\ pc[w] = "idle"
    /\ get_pending_messages # {}
    /\ LET got == get_pending_messages IN
        /\ pel' = [m \in DOMAIN pel |->
                     IF m \in got THEN [owner |-> w, idle |-> FALSE] ELSE pel[m]]
        /\ StartBatch(w, got)
    /\ UNCHANGED <<stream, delivered, acked, tx, dirty, crashedMsgs, efaults>>
    /\ dbUnchanged /\ relayUnchanged /\ waUnchanged

\* process_stream_message: parse_stream_message (an exception leaves the
\* function before its try block and reaches the loop's except branch),
\* is_event_processed, then handle_event's dispatch
Check(w) ==
    /\ pc[w] = "check"
    /\ pc' = [pc EXCEPT ![w] =
                IF ~Parseable(CurEvent(w)) THEN "raised"
                ELSE IF CurEvent(w) \in processed THEN "ack"
                ELSE IF EventType(CurEvent(w)) = "sale_recorded" THEN "stock"
                ELSE "mark"]
    /\ dirty' = [dirty EXCEPT ![w] = FALSE]
    /\ UNCHANGED <<batch, tx, crashedMsgs, efaults>>
    /\ redisUnchanged /\ dbUnchanged /\ relayUnchanged /\ waUnchanged

\* StockIntelligenceEngine.process_sale_recorded, the loop over the items
StockRun(w) ==
    /\ pc[w] = "stock"
    /\ ~FactInsertWaits(w, NewFactKeys(w, CurEvent(w)))
    /\ TxAdd(w, StockWrites(w, CurEvent(w)))
    /\ pc' = [pc EXCEPT ![w] = "stock_commit"]
    /\ UNCHANGED <<batch, dirty, crashedMsgs, efaults>>
    /\ redisUnchanged /\ dbUnchanged /\ relayUnchanged /\ waUnchanged

\* StockIntelligenceEngine.process_sale_recorded: self.db.commit()
StockCommit(w) ==
    /\ pc[w] = "stock_commit"
    /\ db_commit(w)
    /\ dirty' = [dirty EXCEPT ![w] = @ \/ TxWrites(w)]
    /\ pc' = [pc EXCEPT ![w] = "sales"]
    /\ UNCHANGED <<batch, crashedMsgs, efaults>>
    /\ redisUnchanged /\ relayUnchanged /\ waUnchanged

\* SalesIntelligenceEngine.process_sale_recorded up to its commit; with fewer
\* than two products it returns at once
SalesRun(w) ==
    /\ pc[w] = "sales"
    /\ IF Cardinality(Items(CurEvent(w))) < 2
       THEN /\ pc' = [pc EXCEPT ![w] = "mark"]
            /\ UNCHANGED tx
       ELSE /\ ~FactInsertWaits(w, NewFactKeys(w, CurEvent(w)))
            /\ TxAdd(w, SalesWrites(w, CurEvent(w)))
            /\ pc' = [pc EXCEPT ![w] = "sales_commit"]
    /\ UNCHANGED <<batch, dirty, crashedMsgs, efaults>>
    /\ redisUnchanged /\ dbUnchanged /\ relayUnchanged /\ waUnchanged

\* SalesIntelligenceEngine.process_sale_recorded: self.db.commit()
SalesCommit(w) ==
    /\ pc[w] = "sales_commit"
    /\ db_commit(w)
    /\ dirty' = [dirty EXCEPT ![w] = @ \/ TxWrites(w)]
    /\ pc' = [pc EXCEPT ![w] = "mark"]
    /\ UNCHANGED <<batch, crashedMsgs, efaults>>
    /\ redisUnchanged /\ relayUnchanged /\ waUnchanged

\* INSERT ... ON CONFLICT (event_id) DO NOTHING waits for an open transaction
\* that inserted the same key
MarkWaits(w, e) == \E o \in Workers \ {w} : e \in tx[o].processed

\* mark_event_processed returns rowcount > 0
mark_event_processed(w, e) == e \notin processed

\* process_stream_message: mark_event_processed; not marked -> rollback, skipped
Mark(w) ==
    /\ pc[w] = "mark"
    /\ ~MarkWaits(w, CurEvent(w))
    /\ IF mark_event_processed(w, CurEvent(w))
       THEN /\ TxAdd(w, [EmptyTx EXCEPT !.processed = {CurEvent(w)}])
            /\ pc' = [pc EXCEPT ![w] = "commit"]
       ELSE /\ tx' = [tx EXCEPT ![w] = EmptyTx]
            /\ pc' = [pc EXCEPT ![w] = "ack"]
    /\ UNCHANGED <<batch, dirty, crashedMsgs, efaults>>
    /\ redisUnchanged /\ dbUnchanged /\ relayUnchanged /\ waUnchanged

\* process_stream_message: db.commit()
Commit(w) ==
    /\ pc[w] = "commit"
    /\ db_commit(w)
    /\ pc' = [pc EXCEPT ![w] = "ack"]
    /\ UNCHANGED <<batch, dirty, crashedMsgs, efaults>>
    /\ redisUnchanged /\ relayUnchanged /\ waUnchanged

NextMessage(w) ==
    /\ batch' = [batch EXCEPT ![w] = Tail(@)]
    /\ pc' = [pc EXCEPT ![w] = IF Len(batch[w]) > 1 THEN "check" ELSE "idle"]
    /\ dirty' = [dirty EXCEPT ![w] = FALSE]

\* consume_from_stream / reclaim_pending_messages: ack_message after the return
Ack(w) ==
    /\ pc[w] = "ack"
    /\ ack_message(CurMsg(w))
    /\ NextMessage(w)
    /\ UNCHANGED <<stream, delivered, tx, crashedMsgs, efaults>>
    /\ dbUnchanged /\ relayUnchanged /\ waUnchanged

\* an exception in handle_event, mark_event_processed or commit:
\* process_stream_message rolls back and re-raises
Raise(w) ==
    /\ pc[w] \in {"stock", "stock_commit", "sales", "sales_commit", "mark", "commit"}
    /\ efaults < MaxEngineFaults
    /\ efaults' = efaults + 1
    /\ tx' = [tx EXCEPT ![w] = EmptyTx]
    /\ pc' = [pc EXCEPT ![w] = "raised"]
    /\ UNCHANGED <<batch, dirty, crashedMsgs>>
    /\ redisUnchanged /\ dbUnchanged /\ relayUnchanged /\ waUnchanged

\* variant: the except branch acknowledges the failed message
ConsumeExceptAck(w) ==
    /\ pc[w] = "raised"
    /\ ack_message(CurMsg(w))
    /\ NextMessage(w)
    /\ UNCHANGED <<stream, delivered, tx, crashedMsgs, efaults>>
    /\ dbUnchanged /\ relayUnchanged /\ waUnchanged

\* the except branch of the loop: log, no XACK, go on with the next message
ConsumeExcept(w) ==
    /\ pc[w] = "raised"
    /\ NextMessage(w)
    /\ UNCHANGED <<tx, crashedMsgs, efaults>>
    /\ redisUnchanged /\ dbUnchanged /\ relayUnchanged /\ waUnchanged

\* the worker process dies: the session's transaction is rolled back by the
\* server, nothing is acknowledged; a new process starts idle
Crash(w) ==
    /\ pc[w] # "idle"
    /\ efaults < MaxEngineFaults
    /\ efaults' = efaults + 1
    /\ tx' = [tx EXCEPT ![w] = EmptyTx]
    /\ crashedMsgs' = crashedMsgs \cup (Held(w) \ UNION {Held(o) : o \in Workers \ {w}})
    /\ batch' = [batch EXCEPT ![w] = <<>>]
    /\ pc' = [pc EXCEPT ![w] = "idle"]
    /\ dirty' = [dirty EXCEPT ![w] = FALSE]
    /\ redisUnchanged /\ dbUnchanged /\ relayUnchanged /\ waUnchanged

(***************************************************************************)
(* Outbox relay (apps/outbox-relay/src/outbox_relay/main.py)               *)
(* Rows are numbered in created_at order; row r carries event id r.        *)
(***************************************************************************)
Rows == 1 .. NumRows
Relays == {"r1", "r2"}
Statuses == {"pending", "processing", "processed", "failed"}
RELAY_BATCH_SIZE == 100

EventOf(r) == r

\* variant: the selection does not look at published_at
EligiblePublishedToo(r) ==
    rowStatus[r] \in {"pending", "processing", "processed"}

\* variant: the selection keeps only rows with status 'pending'
EligiblePendingOnly(r) ==
    /\ r \notin published
    /\ rowStatus[r] = "pending"

\* WHERE published_at IS NULL AND status IN ('pending','processing','processed')
Eligible(r) ==
    /\ r \notin published
    /\ rowStatus[r] \in {"pending", "processing", "processed"}

\* variant: a plain SELECT that takes no notice of other transactions' locks
LockableAlways(rep, r) == TRUE

\* FOR UPDATE SKIP LOCKED: rows locked by another transaction are left out
Lockable(rep, r) == rowLock[r] \in {NoOne, rep}

\* get_unpublished_events: ORDER BY created_at ASC LIMIT :limit
get_unpublished_events(rep) ==
    FirstN({r \in Rows : Eligible(r) /\ Lockable(rep, r)}, RELAY_BATCH_SIZE)

LockedBy(rep) == {r \in Rows : rowLock[r] = rep}

\* the end of the transaction (commit, rollback or close) releases the locks
ReleaseLocks(rep) ==
    rowLock' = [r \in Rows |-> IF rowLock[r] = rep THEN NoOne ELSE rowLock[r]]

\* variant: the whole selected batch is marked, not only published_ids
mark_published_batch(rep) == published \cup LockedBy(rep)

\* mark_published(db, published_ids)
mark_published(rep) == published \cup rpubIds[rep]

engineUnchanged == UNCHANGED <<delivered, pel, acked, processed, salesFacts, stockFacts,
                               alerts, sugg, pc, batch, tx, dirty, crashedMsgs, efaults>>
                   /\ calcUnchanged

\* a domain transaction commits the next outbox row; st is the status column
\* as the row's writers leave it
InsertRow(r, st) ==
    /\ rowStatus[r] = "absent"
    /\ \A q \in Rows : q < r => rowStatus[q] # "absent"
    /\ rowStatus' = [rowStatus EXCEPT ![r] = st]
    /\ UNCHANGED <<stream, published, rowLock, rpc, rbatch, rpubIds, faults>>
    /\ engineUnchanged /\ waUnchanged

\* relay_batch: get_unpublished_events (an empty result returns 0 at once)
Select(rep) ==
    /\ rpc[rep] = "idle"
    /\ get_unpublished_events(rep) # {}
    /\ LET got == get_unpublished_events(rep) IN
        /\ rowLock' = [r \in Rows |-> IF r \in got THEN rep ELSE rowLock[r]]
        /\ rbatch' = [rbatch EXCEPT ![rep] = SetToSeq(got)]
    /\ rpubIds' = [rpubIds EXCEPT ![rep] = {}]
    /\ rpc' = [rpc EXCEPT ![rep] = "publish"]
    /\ UNCHANGED <<stream, rowStatus, published, faults>>
    /\ engineUnchanged /\ waUnchanged

RelayAdvance(rep) ==
    /\ rbatch' = [rbatch EXCEPT ![rep] = Tail(@)]
    /\ rpc' = [rpc EXCEPT ![rep] = IF Len(rbatch[rep]) > 1 THEN "publish" ELSE "finish"]

\* relay_batch loop body: publish_event_to_stream succeeded
AppendOk(rep) ==
    /\ rpc[rep] = "publish"
    /\ stream' = Append(stream, EventOf(Head(rbatch[rep])))
    /\ rpubIds' = [rpubIds EXCEPT ![rep] = @ \cup {Head(rbatch[rep])}]
    /\ RelayAdvance(rep)
    /\ UNCHANGED <<rowStatus, published, rowLock, faults>>
    /\ engineUnchanged /\ waUnchanged

\* relay_batch loop body: publish_event_to_stream raised, the row is skipped
AppendFail(rep) ==
    /\ rpc[rep] = "publish"
    /\ faults' = [faults EXCEPT !.failed = TRUE]
    /\ RelayAdvance(rep)
    /\ UNCHANGED <<stream, rowStatus, published, rowLock, rpubIds>>
    /\ engineUnchanged /\ waUnchanged

\* relay_batch: if published_ids: mark_published, commit; main closes the session
Finish(rep) ==
    /\ rpc[rep] = "finish"
    /\ published' = IF rpubIds[rep] # {} THEN mark_published(rep) ELSE published
    /\ ReleaseLocks(rep)
    /\ rpubIds' = [rpubIds EXCEPT ![rep] = {}]
    /\ rpc' = [rpc EXCEPT ![rep] = "idle"]
    /\ UNCHANGED <<stream, rowStatus, rbatch, faults>>
    /\ engineUnchanged /\ waUnchanged

\* the relay process dies inside relay_batch: nothing is committed
RelayCrash(rep) ==
    /\ rpc[rep] # "idle"
    /\ faults.crashes < MaxRelayCrashes
    /\ faults' = [faults EXCEPT !.crashes = @ + 1]
    /\ ReleaseLocks(rep)
    /\ rbatch' = [rbatch EXCEPT ![rep] = <<>>]
    /\ rpubIds' = [rpubIds EXCEPT ![rep] = {}]
    /\ rpc' = [rpc EXCEPT ![rep] = "idle"]
    /\ UNCHANGED <<stream, rowStatus, published>>
    /\ engineUnchanged /\ waUnchanged

(***************************************************************************)
(* Messaging worker (apps/whatsapp-worker, packages/messaging_whatsapp)    *)
(* An envelope is modelled by the retry_count of its metadata.             *)
(***************************************************************************)
WaStreams == {"in", "out"}
WaWorkers == {"m1", "m2"}
MAX_RETRIES == 3
WA_BATCH_SIZE == 10
WA_RECLAIM_COUNT == 100
MsgIds == 1 .. MaxWaStream

\* retry_count = envelope.metadata.get("retry_count", 0)
RetryCount(m) == waStream["out"][m].retry

WaHead(w) == Head(waBatch[w])

\* the loop moves to the next message of its batch, or returns
WaAdvance(w, loop) ==
    /\ waBatch' = [waBatch EXCEPT ![w] = Tail(@)]
    /\ waPc' = [waPc EXCEPT ![w] = IF Len(waBatch[w]) > 1 THEN loop ELSE "idle"]

\* consumer.ack: XACK removes the entry from the pending list
WaAck(s, m) ==
    /\ waAcked' = [waAcked EXCEPT ![s] = @ \cup {m}]
    /\ waPel' = [waPel EXCEPT ![s] = [k \in DOMAIN @ \ {m} |-> @[k]]]

\* a producer appends an envelope (publish_inbound / publish_outbound, or a
\* republished envelope that already carries a retry_count)
WaPublish(s, retry) ==
    /\ Len(waStream[s]) < MaxWaStream
    /\ s = "in" => retry = 0
    /\ waStream' = [waStream EXCEPT ![s] = Append(@, [retry |-> retry])]
    /\ UNCHANGED <<waDelivered, waPel, waAcked, waPc, waBatch, dlq, msgRows,
                   domainEvents, failedSends, claimed>>
    /\ UNCHANGED engineVars /\ relayUnchanged /\ msgUnchanged

\* read_messages: XREADGROUP with ">" delivers only never-delivered entries
read_messages(s) ==
    (waDelivered[s] + 1) .. Min(Len(waStream[s]), waDelivered[s] + WA_BATCH_SIZE)

WaRead(w, s) ==
    /\ waPc[w] = "idle"
    /\ read_messages(s) # {}
    /\ waDelivered' = [waDelivered EXCEPT ![s] = @ + Cardinality(read_messages(s))]
    /\ waPel' = [waPel EXCEPT ![s] =
                    [k \in DOMAIN @ \cup read_messages(s) |->
                        IF k \in read_messages(s) THEN [owner |-> w, idle |-> FALSE]
                        ELSE @[k]]]
    /\ waBatch' = [waBatch EXCEPT ![w] = SetToSeq(read_messages(s))]
    /\ waPc' = [waPc EXCEPT ![w] = s]
    /\ UNCHANGED <<waStream, waAcked, dlq, msgRows, domainEvents, failedSends, claimed>>
    /\ UNCHANGED engineVars /\ relayUnchanged /\ msgUnchanged

\* process_inbound_messages loop body: ack after handle_envelope returned,
\* no ack when it raised
InHandle(w, raised) ==
    /\ waPc[w] = "in"
    /\ IF raised THEN UNCHANGED <<waAcked, waPel>> ELSE WaAck("in", WaHead(w))
    /\ WaAdvance(w, "in")
    /\ UNCHANGED <<waStream, waDelivered, dlq, msgRows, domainEvents, failedSends, claimed>>
    /\ UNCHANGED engineVars /\ relayUnchanged /\ msgUnchanged

\* (variant: the envelope is acknowledged after MAX_RETRIES without a copy on
\* the DLQ)
RetryWithoutDlq(w, m, status) ==
    /\ UNCHANGED dlq
    /\ IF status = "blocked" \/ RetryCount(m) >= MAX_RETRIES
          THEN WaAck("out", m)
          ELSE UNCHANGED <<waAcked, waPel>>

\* handle_envelope after a result that is not "sent", and the worker's ack rule
\* (status in ("sent", "blocked") or sent_to_dlq)
RetryOrDlq(w, m, status) ==
    /\ dlq' = IF RetryCount(m) < MAX_RETRIES THEN dlq
              ELSE Append(dlq, [original_event |-> m, error |-> status,
                                retry_count |-> RetryCount(m)])
    /\ IF status = "blocked" \/ RetryCount(m) >= MAX_RETRIES
          THEN WaAck("out", m)
          ELSE UNCHANGED <<waAcked, waPel>>

\* send_message up to the provider call: opt-out, configuration errors, or the
\* pending message row is committed; an exception gives a plain failed result
OutBegin(w, pre) ==
    /\ waPc[w] = "out"
    /\ pre \in {"blocked", "failed", "exception", "ok"}
    /\ LET m == WaHead(w) IN
        CASE pre = "ok" ->
                /\ msgRows' = Append(msgRows, [msg |-> m, status |-> "pending"])
                /\ waPc' = [waPc EXCEPT ![w] = "send"]
                /\ UNCHANGED <<waAcked, waPel, waBatch, dlq>>
          [] pre = "exception" ->
                /\ WaAdvance(w, "out")
                /\ UNCHANGED <<waAcked, waPel, dlq, msgRows>>
          [] OTHER ->
                /\ RetryOrDlq(w, m, pre)
                /\ WaAdvance(w, "out")
                /\ UNCHANGED msgRows
    /\ UNCHANGED <<waStream, waDelivered, domainEvents, failedSends, claimed>>
    /\ UNCHANGED engineVars /\ relayUnchanged /\ msgUnchanged

SetRowStatus(m, st) ==
    LET i == CHOOSE j \in DOMAIN msgRows :
                 msgRows[j].msg = m /\ msgRows[j].status = "pending"
    IN [msgRows EXCEPT ![i].status = st]

\* send_message from the provider call on
OutSend(w, ok) ==
    /\ waPc[w] = "send"
    /\ LET m == WaHead(w) IN
        IF ok
        THEN /\ msgRows' = SetRowStatus(m, "sent")
             /\ WaAck("out", m)
             /\ UNCHANGED <<dlq, domainEvents, failedSends>>
        ELSE /\ msgRows' = SetRowStatus(m, "failed")
             /\ domainEvents' = domainEvents + 1
             /\ failedSends' = [failedSends EXCEPT ![m] = @ + 1]
             /\ RetryOrDlq(w, m, "failed")
    /\ WaAdvance(w, "out")
    /\ UNCHANGED <<waStream, waDelivered, claimed>>
    /\ UNCHANGED engineVars /\ relayUnchanged /\ msgUnchanged

\* the idle time of a pending entry passes RECLAIM_IDLE_MS
WaTick(s, m) ==
    /\ m \in DOMAIN waPel[s]
    /\ ~waPel[s][m].idle
    /\ waPel' = [waPel EXCEPT ![s][m].idle = TRUE]
    /\ UNCHANGED <<waStream, waDelivered, waAcked, waPc, waBatch, dlq, msgRows,
                   domainEvents, failedSends, claimed>>
    /\ UNCHANGED engineVars /\ relayUnchanged /\ msgUnchanged

\* get_pending: XPENDING range (count entries) filtered by idle time
get_pending(s) ==
    {m \in FirstN(DOMAIN waPel[s], WA_RECLAIM_COUNT) : waPel[s][m].idle}

\* (variant: the claimed entries are handed to the consumer's loop and handled
\* again)
reclaim_pending_handled(w, s) ==
    /\ get_pending(s) # {}
    /\ waPc[w] = "idle"
    /\ waPel' = [waPel EXCEPT ![s] =
                    [k \in DOMAIN @ |->
                        IF k \in get_pending(s) THEN [owner |-> w, idle |-> FALSE]
                        ELSE @[k]]]
    /\ claimed' = [claimed EXCEPT ![s] = @ \cup get_pending(s)]
    /\ waBatch' = [waBatch EXCEPT ![w] = SetToSeq(get_pending(s))]
    /\ waPc' = [waPc EXCEPT ![w] = s]
    /\ UNCHANGED <<waStream, waDelivered, waAcked, dlq, msgRows,
                   domainEvents, failedSends>>
    /\ UNCHANGED engineVars /\ relayUnchanged /\ msgUnchanged

\* run_reclaim_loop: reclaim_pending claims the idle entries for this consumer;
\* the returned messages are counted in a log line and dropped
reclaim_pending(w, s) ==
    /\ get_pending(s) # {}
    /\ waPel' = [waPel EXCEPT ![s] =
                    [k \in DOMAIN @ |->
                        IF k \in get_pending(s) THEN [owner |-> w, idle |-> FALSE]
                        ELSE @[k]]]
    /\ claimed' = [claimed EXCEPT ![s] = @ \cup get_pending(s)]
    /\ UNCHANGED <<waStream, waDelivered, waAcked, waPc, waBatch, dlq, msgRows,
                   domainEvents, failedSends>>
    /\ UNCHANGED engineVars /\ relayUnchanged /\ msgUnchanged

\* the worker process dies inside a loop pass
WaCrash(w) ==
    /\ waPc[w] # "idle"
    /\ waPc' = [waPc EXCEPT ![w] = "idle"]
    /\ waBatch' = [waBatch EXCEPT ![w] = <<>>]
    /\ UNCHANGED <<waStream, waDelivered, waPel, waAcked, dlq, msgRows,
                   domainEvents, failedSends, claimed>>
    /\ UNCHANGED engineVars /\ relayUnchanged /\ msgUnchanged

(***************************************************************************)
(* Messaging handlers: InboundHandler and OutboundHandler with their       *)
(* database work.  One tenant; an envelope is                              *)
(*   [retry, phone, pmid, kw]                                              *)
(* where pmid is the provider message id of an inbound message (0 on the   *)
(* outbound stream, or the id of the inbound message an auto-reply answers)*)
(* and kw tells what the text is: "stop" an opt-out keyword, "intent" a    *)
(* text with a detected intent, "api" an outbound message of a vertical,   *)
(* "reply" an auto-reply queued by the inbound handler.                    *)
(* The session factory is sessionmaker(autocommit=False, autoflush=False)  *)
(* and the repository never flushes: rows added to a session are inserted  *)
(* at commit, where the unique and NOT NULL constraints are checked.       *)
(***************************************************************************)
Phones == {"a", "b"}
Bindings == {"none", "no_token", "ok"}
ProviderIds == {1, 2}
InPhone == "a"

\* events on the domain stream: type and the message they are about (the
\* provider id of an inbound message, the stream id of an outbound envelope)
BusTypes == {"opted_out", "action_requested", "message_received", "delivery_failed"}
BusKeys == BusTypes \X (1 .. MaxInbound + MaxApiOutbound)

\* automation.detect on the text of inbound message pmid
Keyword(pmid) == IF pmid = 1 THEN "stop" ELSE "intent"

EmptySess == [open |-> FALSE, conv |-> NoOne, msgs |-> {}, optout |-> NoOne,
              state |-> NoOne]

InEnvelope(w) == waStream["in"][WaHead(w)]
OutEnvelope(w) == waStream["out"][WaHead(w)]

ApiPublished == Cardinality({i \in DOMAIN waStream["out"] : waStream["out"][i].kw = "api"})

\* the webhook receiver publishes an inbound message; the provider may post
\* the same message again, which gives a second entry with the same pmid
publish_inbound(pmid) ==
    /\ Len(waStream["in"]) < MaxInbound
    /\ waStream' = [waStream EXCEPT !["in"] =
            Append(@, [retry |-> 0, phone |-> InPhone, pmid |-> pmid, kw |-> Keyword(pmid)])]
    /\ UNCHANGED <<waDelivered, waPel, waAcked, waPc, waBatch, dlq, msgRows,
                   domainEvents, failedSends, claimed>>
    /\ UNCHANGED engineVars /\ relayUnchanged /\ msgUnchanged

\* a vertical queues an outbound message (retry > 0: a republished envelope)
publish_outbound(p, retry) ==
    /\ ApiPublished < MaxApiOutbound
    /\ waStream' = [waStream EXCEPT !["out"] =
            Append(@, [retry |-> retry, phone |-> p, pmid |-> 0, kw |-> "api"])]
    /\ UNCHANGED <<waDelivered, waPel, waAcked, waPc, waBatch, dlq, msgRows,
                   domainEvents, failedSends, claimed>>
    /\ UNCHANGED engineVars /\ relayUnchanged /\ msgUnchanged

\* SELECT 1 FROM whatsapp_messages WHERE provider_message_id = :pmid
is_message_processed(pmid) ==
    \E r \in messages : r.dir = "in" /\ r.pmid = pmid

\* repo.is_opted_out: an active opt-out row exists
is_opted_out(p) == p \in optouts

\* ConversationManager.can_send_message
can_send_message(p) ==
    IF is_opted_out(p) THEN FALSE
    ELSE IF binding = "none" THEN FALSE
    ELSE TRUE

\* handler result recorded for the stream entry
SetResult(s, m, st) ==
    result' = [result EXCEPT ![s] =
                  [k \in DOMAIN @ \cup {m} |-> IF k = m THEN st ELSE @[k]]]

frameOldWa == UNCHANGED <<msgRows, domainEvents, failedSends, claimed>>

\* db.close() in the loop's finally once the batch is done; otherwise the
\* session goes on to the next message as the handler left it
AfterMessage(w, s) == IF Len(waBatch[w]) > 1 THEN s ELSE EmptySess

\* conversation.id of the object get_or_create_conversation returned: the
\* primary key default (uuid4) is applied by the INSERT, so a conversation
\* that was only added to the session has no id yet
ConversationId(p) == IF convs[p] = "absent" THEN NoOne ELSE p

\* InboundHandler.handle_envelope: idempotency check on the provider id;
\* an already stored message is skipped and the loop acknowledges it
InCheck(w) ==
    /\ waPc[w] = "in"
    /\ LET m == WaHead(w)
           e == InEnvelope(w)
       IN IF is_message_processed(e.pmid)
          THEN /\ SetResult("in", m, "skipped")
               /\ WaAck("in", m)
               /\ WaAdvance(w, "in")
               /\ sess' = [sess EXCEPT ![w] = AfterMessage(w, [@ EXCEPT !.open = TRUE])]
          ELSE /\ waPc' = [waPc EXCEPT ![w] = "process"]
               /\ sess' = [sess EXCEPT ![w].open = TRUE]
               /\ UNCHANGED <<result, waAcked, waPel, waBatch>>
    /\ UNCHANGED <<waStream, waDelivered, dlq, binding, convs, optouts, messages, bus,
                   calls, mfaults>>
    /\ frameOldWa
    /\ UNCHANGED engineVars /\ relayUnchanged

\* events the automation publishes for an inbound message (publish_optout,
\* publish_action_requested)
AutomationEvents(e) ==
    IF e.kw = "stop" THEN {<<"opted_out", e.pmid>>}
    ELSE {<<"action_requested", e.pmid>>}

\* process_message up to the commit: the rows are added to the session, the
\* automation events and the auto-reply are published
InProcess(w) ==
    /\ waPc[w] = "process"
    /\ LET m == WaHead(w)
           e == InEnvelope(w)
           is_new == convs[e.phone] = "absent"
           row == [dir |-> "in", phone |-> e.phone, pmid |-> e.pmid, env |-> m,
                   status |-> "delivered", conv |-> ConversationId(e.phone),
                   late |-> FALSE, error |-> NoOne]
       IN /\ sess' = [sess EXCEPT ![w] =
                [open |-> TRUE,
                 conv |-> IF is_new THEN e.phone ELSE NoOne,
                 msgs |-> @.msgs \cup {row},
                 optout |-> IF e.kw = "stop" /\ ~is_opted_out(e.phone)
                            THEN e.phone ELSE NoOne,
                 state |-> IF e.kw = "stop" THEN "opted_out" ELSE "processing"]]
          /\ bus' = [k \in DOMAIN bus |-> IF k \in AutomationEvents(e) THEN bus[k] + 1
                                         ELSE bus[k]]
          /\ waStream' = [waStream EXCEPT !["out"] =
                Append(@, [retry |-> 0, phone |-> e.phone, pmid |-> e.pmid, kw |-> "reply"])]
    /\ waPc' = [waPc EXCEPT ![w] = "commit"]
    /\ UNCHANGED <<waDelivered, waPel, waAcked, waBatch, dlq, binding, convs, optouts,
                   messages, result, calls, mfaults>>
    /\ frameOldWa
    /\ UNCHANGED engineVars /\ relayUnchanged

\* the INSERTs of commit violate a constraint: conversation_id NOT NULL,
\* unique (tenant_id, customer_phone) of conversations and of opt-outs,
\* unique provider_message_id
CommitFails(w) ==
    \/ \E r \in sess[w].msgs : r.conv = NoOne
    \/ sess[w].conv # NoOne /\ convs[sess[w].conv] # "absent"
    \/ \E r \in sess[w].msgs : r.dir = "in" /\ is_message_processed(r.pmid)
    \/ sess[w].optout # NoOne /\ sess[w].optout \in optouts

\* process_message from db.commit() on, and the loop's ack: a failed commit is
\* rolled back and reported as status "failed"; the loop acknowledges whatever
\* handle_envelope returned
InCommit(w) ==
    /\ waPc[w] = "commit"
    /\ LET m == WaHead(w)
           e == InEnvelope(w)
       IN /\ IF CommitFails(w)
             THEN /\ SetResult("in", m, "failed")
                  /\ UNCHANGED <<convs, optouts, messages, bus>>
             ELSE /\ SetResult("in", m, "processed")
                  /\ convs' = [convs EXCEPT ![e.phone] = sess[w].state]
                  /\ optouts' = IF sess[w].optout = NoOne THEN optouts
                                ELSE optouts \cup {sess[w].optout}
                  /\ messages' = messages \cup sess[w].msgs
                  /\ bus' = [bus EXCEPT ![<<"message_received", e.pmid>>] = @ + 1]
          /\ WaAck("in", m)
    /\ WaAdvance(w, "in")
    /\ sess' = [sess EXCEPT ![w] = EmptySess]
    /\ UNCHANGED <<waStream, waDelivered, dlq, binding, calls, mfaults>>
    /\ frameOldWa
    /\ UNCHANGED engineVars /\ relayUnchanged

\* the pending row of outbound stream entry m
PendingRow(m) ==
    CHOOSE r \in messages : r.dir = "out" /\ r.env = m /\ r.status = "pending"

\* (variant: the provider is called with the pending row still uncommitted in
\* the session's open transaction)
hold_pending(w, row) ==
    /\ UNCHANGED messages
    /\ sess' = [sess EXCEPT ![w] = [@ EXCEPT !.open = TRUE, !.msgs = @ \cup {row}]]

\* create_message(status=PENDING) and self.db.commit(): the row is inserted and
\* the transaction ends
commit_pending(w, row) ==
    /\ messages' = messages \cup {row}
    /\ sess' = [sess EXCEPT ![w] = EmptySess]

\* OutboundHandler.send_message up to the provider call, inside
\* handle_envelope and the loop body of process_outbound_messages
SendBegin(w) ==
    /\ waPc[w] = "out"
    /\ LET m == WaHead(w)
           e == OutEnvelope(w)
           row == [dir |-> "out", phone |-> e.phone, pmid |-> 0, env |-> m,
                   status |-> "pending", conv |-> ConversationId(e.phone),
                   late |-> FALSE, error |-> NoOne]
       IN CASE ~can_send_message(e.phone) ->
                 \* "blocked", reason opted_out_or_no_binding
                 /\ SetResult("out", m, "blocked")
                 /\ RetryOrDlq(w, m, "blocked")
                 /\ WaAdvance(w, "out")
                 /\ sess' = [sess EXCEPT ![w] = AfterMessage(w, [@ EXCEPT !.open = TRUE])]
                 /\ UNCHANGED messages
            [] can_send_message(e.phone) /\ binding = "no_token" ->
                 \* "failed": no access token / no instance_name configured
                 /\ SetResult("out", m, "failed")
                 /\ RetryOrDlq(w, m, "failed")
                 /\ WaAdvance(w, "out")
                 /\ sess' = [sess EXCEPT ![w] = AfterMessage(w, [@ EXCEPT !.open = TRUE])]
                 /\ UNCHANGED messages
            [] can_send_message(e.phone) /\ binding = "ok" /\ row.conv = NoOne ->
                 \* db.commit() raises on the message of a new conversation;
                 \* handle_envelope's except returns a plain "failed"
                 /\ SetResult("out", m, "failed")
                 /\ WaAdvance(w, "out")
                 /\ sess' = [sess EXCEPT ![w] = EmptySess]
                 /\ UNCHANGED <<messages, dlq, waAcked, waPel>>
            [] OTHER ->
                 \* the pending row is committed, then the provider is called
                 /\ commit_pending(w, row)
                 /\ waPc' = [waPc EXCEPT ![w] = "send"]
                 /\ UNCHANGED <<result, dlq, waAcked, waPel, waBatch>>
    /\ UNCHANGED <<waStream, waDelivered, binding, convs, optouts, bus, calls, mfaults>>
    /\ frameOldWa
    /\ UNCHANGED engineVars /\ relayUnchanged

ProviderOutcomes == {"ok", "retryable", "permanent"}

\* send_message from the provider's answer on: the row becomes sent or failed
\* in a transaction of its own; a failure publishes delivery_failed and goes
\* through handle_envelope's retry / DLQ rule
ProviderReturn(w, outcome) ==
    /\ waPc[w] = "send"
    /\ LET m == WaHead(w)
           e == OutEnvelope(w)
           row == PendingRow(m)
       IN IF outcome = "ok"
          THEN /\ messages' = (messages \ {row}) \cup
                                {[row EXCEPT !.status = "sent",
                                             !.late = is_opted_out(e.phone)]}
               /\ SetResult("out", m, "sent")
               /\ WaAck("out", m)
               /\ UNCHANGED <<dlq, bus>>
          ELSE /\ messages' = (messages \ {row}) \cup
                                {[row EXCEPT !.status = "failed", !.error = outcome]}
               /\ bus' = [bus EXCEPT ![<<"delivery_failed", m>>] = @ + 1]
               /\ SetResult("out", m, "failed")
               /\ RetryOrDlq(w, m, "failed")
    /\ calls' = [k \in DOMAIN calls \cup {WaHead(w)} |->
                    IF k = WaHead(w) THEN outcome ELSE calls[k]]
    /\ WaAdvance(w, "out")
    /\ sess' = [sess EXCEPT ![w] = EmptySess]
    /\ UNCHANGED <<waStream, waDelivered, binding, convs, optouts, mfaults>>
    /\ frameOldWa
    /\ UNCHANGED engineVars /\ relayUnchanged

\* the worker process dies inside a handler: its session is lost
MsgCrash(w) ==
    /\ waPc[w] # "idle"
    /\ mfaults < MaxMsgCrashes
    /\ mfaults' = mfaults + 1
    /\ waPc' = [waPc EXCEPT ![w] = "idle"]
    /\ waBatch' = [waBatch EXCEPT ![w] = <<>>]
    /\ sess' = [sess EXCEPT ![w] = EmptySess]
    /\ UNCHANGED <<waStream, waDelivered, waPel, waAcked, dlq, binding, convs, optouts,
                   messages, bus, result, calls>>
    /\ frameOldWa
    /\ UNCHANGED engineVars /\ relayUnchanged

(***************************************************************************)
(* Notification loop: process_vertical_events reads the domain stream      *)
(* events:materials in the group whatsapp-notifier.  A domain event is     *)
(* [retry, phone, pmid, kw] with kw its event_type and phone the payload's *)
(* customer_phone (NoOne: none); a queued notification carries the stream  *)
(* id of the event that triggered it in pmid.                              *)
(***************************************************************************)
NotifyStreams == WaStreams \cup {"vertical"}
DomainEventTypes == {"quote_created", "order_status_changed", "sale_recorded"}

\* (variant: every event type triggers a notification)
NOTIFY_EVERYTHING == DomainEventTypes

\* the allow-list, restricted to the event types of the model
VERTICAL_EVENTS_TO_NOTIFY == {"quote_created", "order_status_changed"}

\* a vertical's event reaches the stream through the outbox relay
publish_vertical(type, p) ==
    /\ Len(waStream["vertical"]) < MaxVertical
    /\ waStream' = [waStream EXCEPT !["vertical"] =
            Append(@, [retry |-> 0, phone |-> p, pmid |-> 0, kw |-> type])]
    /\ UNCHANGED <<waDelivered, waPel, waAcked, waPc, waBatch, dlq, msgRows,
                   domainEvents, failedSends, claimed>>
    /\ UNCHANGED engineVars /\ relayUnchanged /\ msgUnchanged

\* OutboundHandler.handle_vertical_event: "queued" and the envelope to publish,
\* or the reason for skipping; template: the provider's registry has the
\* template of the event type
handle_vertical_event(e, template) ==
    IF e.kw \notin VERTICAL_EVENTS_TO_NOTIFY THEN "event_type_not_configured"
    ELSE IF e.phone = NoOne THEN "no_customer_phone"
    ELSE IF binding = "none" THEN "no_binding"
    ELSE IF ~template THEN "template_not_found"
    ELSE "queued"

\* loop body of process_vertical_events: the handler is called for the event
\* types of the allow-list; the message is acknowledged after it returned and
\* also when it raised
NotifyHandle(w, raised, template) ==
    /\ waPc[w] = "vertical"
    /\ LET m == WaHead(w)
           e == waStream["vertical"][m]
           res == IF e.kw \notin VERTICAL_EVENTS_TO_NOTIFY THEN "ignored"
                  ELSE IF raised THEN "raised"
                  ELSE handle_vertical_event(e, template)
       IN /\ waStream' = IF res = "queued"
                         THEN [waStream EXCEPT !["out"] =
                                 Append(@, [retry |-> 0, phone |-> e.phone, pmid |-> m,
                                            kw |-> "notify"])]
                         ELSE waStream
          /\ SetResult("vertical", m, res)
          /\ WaAck("vertical", m)
    /\ WaAdvance(w, "vertical")
    /\ UNCHANGED <<waDelivered, dlq, binding, convs, optouts, messages, sess, bus,
                   calls, mfaults>>
    /\ frameOldWa
    /\ UNCHANGED engineVars /\ relayUnchanged

(***************************************************************************)
(* Initial states and specifications                                       *)
(***************************************************************************)
EngineStart ==
    /\ stream = <<>>
    /\ delivered = 0
    /\ pel = [m \in {} |-> [owner |-> NoOne, idle |-> FALSE]]
    /\ acked = {}
    /\ processed = {}
    /\ salesFacts = {}
    /\ stockFacts = {}
    /\ alerts = [k \in AlertKeys |-> 0]
    /\ sugg = [k \in SuggKeys |-> 0]
    /\ pc = [w \in Workers |-> "idle"]
    /\ batch = [w \in Workers |-> <<>>]
    /\ tx = [w \in Workers |-> EmptyTx]
    /\ dirty = [w \in Workers |-> FALSE]
    /\ crashedMsgs = {}
    /\ efaults = 0

RelayStart ==
    /\ rowStatus = [r \in Rows |-> "absent"]
    /\ published = {}
    /\ rowLock = [r \in Rows |-> NoOne]
    /\ rpc = [rep \in Relays |-> "idle"]
    /\ rbatch = [rep \in Relays |-> <<>>]
    /\ rpubIds = [rep \in Relays |-> {}]
    /\ faults = [crashes |-> 0, failed |-> FALSE]

WaStart ==
    /\ waStream = [s \in WaStreams |-> <<>>]
    /\ waDelivered = [s \in WaStreams |-> 0]
    /\ waPel = [s \in WaStreams |-> [m \in {} |-> [owner |-> NoOne, idle |-> FALSE]]]
    /\ waAcked = [s \in WaStreams |-> {}]
    /\ waPc = [w \in WaWorkers |-> "idle"]
    /\ waBatch = [w \in WaWorkers |-> <<>>]
    /\ dlq = <<>>
    /\ msgRows = <<>>
    /\ domainEvents = 0
    /\ failedSends = [m \in MsgIds |-> 0]
    /\ claimed = [s \in WaStreams |-> {}]

TenantStart ==
    /\ suggRows = {}
    /\ handled = <<>>

\* stream entries of the shutdown model: 1 and 2 are new, 3 is pending for a
\* consumer that is gone and has idled long enough to be claimed
ShutMsgs == {1, 2, 3}
ProcStart ==
    [flag |-> FALSE, relay |-> "loop", batches |-> 0,
     main |-> "loop", reclaim |-> "sleep",
     st |-> [m \in ShutMsgs |-> IF m = 3 THEN "pending" ELSE "new"],
     by |-> [m \in ShutMsgs |-> IF m = 3 THEN "gone" ELSE "none"],
     batch |-> [th \in {"main", "reclaim"} |-> <<>>]]
\* outbound rows 1 and 2 were sent (send_message stores the provider's message
\* id with status sent); no row carries provider id 3
DlvStart ==
    [status |-> [i \in {1, 2, 3} |-> IF i = 3 THEN "absent" ELSE "sent"],
     log |-> <<>>, events |-> 0]

ConcStart == [w \in {"w1", "w2"} |-> [pc |-> "idle"]]

LateStart ==
    /\ proc = ProcStart
    /\ conc = ConcStart
    /\ dlv = DlvStart

CalcStart ==
    /\ stockRows = {}
    /\ saleRows = {}
    /\ alertRow = {}
    /\ lastCompute = {}
    /\ fx = {}
    /\ TenantStart
    /\ LateStart

MsgBlank ==
    /\ messages = {}
    /\ sess = [w \in WaWorkers |-> EmptySess]
    /\ bus = [k \in BusKeys |-> 0]
    /\ result = [s \in WaStreams |-> [m \in {} |-> NoOne]]
    /\ calls = [m \in {} |-> NoOne]
    /\ mfaults = 0

MsgStart ==
    /\ binding = "ok"
    /\ convs = [p \in Phones |-> "absent"]
    /\ optouts = {}
    /\ MsgBlank

\* ---- engine worker
EngineInit == EngineStart /\ RelayStart /\ WaStart /\ MsgStart /\ CalcStart

EngineNext ==
    \/ \E e \in Events : Publish(e)
    \/ \E m \in 1 .. MaxStream : Tick(m)
    \/ \E w \in Workers :
        \/ Read(w)
        \/ Reclaim(w)
        \/ Check(w)
        \/ StockRun(w)
        \/ StockCommit(w)
        \/ SalesRun(w)
        \/ SalesCommit(w)
        \/ Mark(w)
        \/ Commit(w)
        \/ Ack(w)
        \/ Raise(w)
        \/ ConsumeExcept(w)
        \/ Crash(w)

EngineSpec == EngineInit /\ [][EngineNext]_vars

\* ---- outbox relay
RelayInit == EngineStart /\ RelayStart /\ WaStart /\ MsgStart /\ CalcStart

RelayNext ==
    \/ \E r \in Rows, st \in Statuses : InsertRow(r, st)
    \/ \E rep \in Relays :
        \/ Select(rep)
        \/ AppendOk(rep)
        \/ AppendFail(rep)
        \/ Finish(rep)
        \/ RelayCrash(rep)

RelaySpec == RelayInit /\ [][RelayNext]_vars

\* the relay keeps running and the bus eventually accepts appends
RelayFair ==
    /\ RelaySpec
    /\ \A rep \in Relays :
        /\ WF_vars(Select(rep))
        /\ SF_vars(AppendOk(rep))
        /\ WF_vars(Finish(rep))

\* ---- messaging worker
WaInit == EngineStart /\ RelayStart /\ WaStart /\ MsgStart /\ CalcStart

WaNext ==
    \/ \E s \in WaStreams, retry \in {0, MAX_RETRIES} : WaPublish(s, retry)
    \/ \E s \in WaStreams, m \in MsgIds : WaTick(s, m)
    \/ \E w \in WaWorkers :
        \/ \E s \in WaStreams : WaRead(w, s)
        \/ \E raised \in BOOLEAN : InHandle(w, raised)
        \/ \E pre \in {"blocked", "failed", "exception", "ok"} : OutBegin(w, pre)
        \/ \E ok \in BOOLEAN : OutSend(w, ok)
        \/ \E s \in WaStreams : reclaim_pending(w, s)
        \/ WaCrash(w)

WaSpec == WaInit /\ [][WaNext]_vars

\* the loops keep running and time passes
WaFair ==
    /\ WaSpec
    /\ \A s \in WaStreams : \A m \in MsgIds : WF_vars(WaTick(s, m))
    /\ \A w \in WaWorkers :
        /\ \A s \in WaStreams : WF_vars(WaRead(w, s)) /\ WF_vars(reclaim_pending(w, s))
        /\ WF_vars(\E raised \in BOOLEAN : InHandle(w, raised))
        /\ WF_vars(\E pre \in {"blocked", "failed", "exception", "ok"} : OutBegin(w, pre))
        /\ WF_vars(\E ok \in BOOLEAN : OutSend(w, ok))

\* ---- inbound and outbound loops together: the tenant's binding and the
\* conversations that exist are given; nothing has been received or sent yet.
\* The outbound envelopes are the auto-replies queued by the inbound handler.
HandlerInit ==
    /\ EngineStart /\ RelayStart /\ WaStart /\ MsgBlank /\ CalcStart
    /\ binding \in Bindings
    /\ convs \in [Phones -> {"absent", "idle"}]
    /\ optouts = {}

HandlerNext ==
    \/ \E pmid \in ProviderIds : publish_inbound(pmid)
    \/ \E w \in WaWorkers :
        \/ \E s \in WaStreams : WaRead(w, s)
        \/ InCheck(w)
        \/ InProcess(w)
        \/ InCommit(w)
        \/ SendBegin(w)
        \/ \E outcome \in ProviderOutcomes : ProviderReturn(w, outcome)
        \/ MsgCrash(w)

HandlerSpec == HandlerInit /\ [][HandlerNext]_vars

\* ---- outbound loop alone: opt-outs recorded earlier are given as well
OutboundInit ==
    /\ EngineStart /\ RelayStart /\ WaStart /\ MsgBlank /\ CalcStart
    /\ binding \in Bindings
    /\ convs \in [Phones -> {"absent", "idle"}]
    /\ optouts \in SUBSET Phones

OutboundNext ==
    \/ \E p \in Phones, retry \in {0, MAX_RETRIES} : publish_outbound(p, retry)
    \/ \E w \in WaWorkers :
        \/ WaRead(w, "out")
        \/ SendBegin(w)
        \/ \E outcome \in ProviderOutcomes : ProviderReturn(w, outcome)
        \/ MsgCrash(w)

OutboundSpec == OutboundInit /\ [][OutboundNext]_vars

\* ---- notification loop
NotifyInit ==
    /\ EngineStart /\ RelayStart
    /\ waStream = [s \in NotifyStreams |-> <<>>]
    /\ waDelivered = [s \in NotifyStreams |-> 0]
    /\ waPel = [s \in NotifyStreams |-> [m \in {} |-> [owner |-> NoOne, idle |-> FALSE]]]
    /\ waAcked = [s \in NotifyStreams |-> {}]
    /\ waPc = [w \in WaWorkers |-> "idle"]
    /\ waBatch = [w \in WaWorkers |-> <<>>]
    /\ dlq = <<>>
    /\ msgRows = <<>>
    /\ domainEvents = 0
    /\ failedSends = [m \in MsgIds |-> 0]
    /\ claimed = [s \in NotifyStreams |-> {}]
    /\ binding \in Bindings
    /\ convs = [p \in Phones |-> "absent"]
    /\ optouts = {}
    /\ CalcStart
    /\ messages = {}
    /\ sess = [w \in WaWorkers |-> EmptySess]
    /\ bus = [k \in BusKeys |-> 0]
    /\ result = [s \in NotifyStreams |-> [m \in {} |-> NoOne]]
    /\ calls = [m \in {} |-> NoOne]
    /\ mfaults = 0

NotifyNext ==
    \/ \E type \in DomainEventTypes, p \in {NoOne, InPhone} : publish_vertical(type, p)
    \/ \E w \in WaWorkers :
        \/ WaRead(w, "vertical")
        \/ \E raised \in BOOLEAN, template \in BOOLEAN : NotifyHandle(w, raised, template)
        \/ MsgCrash(w)

NotifySpec == NotifyInit /\ [][NotifyNext]_vars

\* ---- engine worker fed with an unknown event type in front of a sale
RouterEvents == {1, 4, 5, 6}

RouterNext ==
    \/ \E e \in RouterEvents : Publish(e)
    \/ \E m \in 1 .. MaxStream : Tick(m)
    \/ \E w \in Workers :
        \/ Read(w)
        \/ Reclaim(w)
        \/ Check(w)
        \/ StockRun(w)
        \/ StockCommit(w)
        \/ SalesRun(w)
        \/ SalesCommit(w)
        \/ Mark(w)
        \/ Commit(w)
        \/ Ack(w)
        \/ Raise(w)
        \/ ConsumeExcept(w)
        \/ Crash(w)

RouterSpec == EngineInit /\ [][RouterNext]_vars

(***************************************************************************)
(* Properties of the engine worker (EngineSpec)                            *)
(***************************************************************************)
\* projection rows stored on behalf of event e
SuggRowsOf(e) == {k \in SuggKeys : k[3] = e /\ sugg[k] > 0}
AlertRowsOf(e) == {k \in AlertKeys : k[2] = e /\ alerts[k] > 0}
HasProjectionRows(e) ==
    \/ \E p \in Products : <<e, p>> \in salesFacts \/ <<e, p>> \in stockFacts
    \/ SuggRowsOf(e) # {}
    \/ AlertRowsOf(e) # {}

NoDuplicatedRow(e) ==
    /\ \A k \in SuggKeys : k[3] = e => sugg[k] <= 1
    /\ \A k \in AlertKeys : k[2] = e => alerts[k] <= 1

Deliveries(e) == {m \in DOMAIN stream : stream[m] = e}

\* C1: however often (and to however many workers at once) an event is
\* delivered, the projection tables hold what a single delivery writes: no row
\* derived from the event is stored twice.
C1_DeliveriesAreIdempotent == \A e \in Events : NoDuplicatedRow(e)

\* C2: the processed key and the projection rows of an event are committed by
\* one transaction: committed projection rows of an event exist only together
\* with its committed processed key.
C2_ProjectionsOnlyWithProcessedKey ==
    \A e \in Events : HasProjectionRows(e) => e \in processed

\* C3: when handling a delivery raises, the engine tables are what they were
\* before that delivery started (nothing of it was committed).
C3_FailureLeavesTablesUntouched ==
    \A w \in Workers : pc[w] = "raised" => ~dirty[w]

\* C7: once the only worker holding a message has crashed before the ack, the
\* reclaim passes that follow leave the side effects of its event exactly once:
\* no later step stores a row of that event a second time (the event being on
\* the stream only once).
C7_ReclaimedEffectsOnce ==
    [][\A m \in crashedMsgs :
          (Cardinality(Deliveries(stream[m])) = 1 /\ NoDuplicatedRow(stream[m]))
              => NoDuplicatedRow(stream[m])']_vars

\* C8: every acknowledged message carries an event whose processed key is
\* committed: the worker acks only after its commit or after finding the event
\* already processed.
C8_AckOnlyAfterProcessed == \A m \in acked : stream[m] \in processed

\* C8 witness: two deliveries of one event are both acknowledged (one after its
\* commit, the other after finding the key) although a delivery has raised
C8_Witness ==
    /\ efaults > 0
    /\ \E m1 \in acked, m2 \in acked : m1 # m2 /\ stream[m1] = stream[m2]

(***************************************************************************)
(* Properties of the outbox relay (RelaySpec, RelayFair)                   *)
(***************************************************************************)
Appends(r) == Cardinality({i \in DOMAIN stream : stream[i] = EventOf(r)})
BatchRows(rep) == {rbatch[rep][i] : i \in 1 .. Len(rbatch[rep])} \cup rpubIds[rep]
NoRelayFault == faults.crashes = 0 /\ ~faults.failed

\* C4 as stated: every row with published_at NULL, whatever its status, is
\* eventually published.
C4_EveryRowEventuallyPublished ==
    \A r \in Rows : (rowStatus[r] \in Statuses) ~> (r \in published)

\* C4 amended: every row with published_at NULL whose status is pending,
\* processing or processed is eventually appended and published.
C4_EligibleRowEventuallyPublished ==
    \A r \in Rows :
        (rowStatus[r] \in {"pending", "processing", "processed"})
            ~> (r \in published /\ Appends(r) >= 1)

\* C4 witness: a row left in status processed was published after an append
\* had failed
C4_Witness ==
    /\ faults.failed
    /\ \E r \in published : rowStatus[r] = "processed"

C6_SkipLockedAppendsOnce ==
    /\ \A a \in Relays, b \in Relays : a # b => BatchRows(a) \cap BatchRows(b) = {}
    /\ \A rep \in Relays :
        (rpc[rep] = "idle" /\ \E r \in Rows : Eligible(r) /\ rowLock[r] = NoOne)
            => ENABLED Select(rep)
    /\ NoRelayFault =>
        \A r \in Rows : Appends(r) <= 1 /\ (r \in published => Appends(r) = 1)

\* C6 witness: two replicas relay different rows at the same time and nothing
\* has failed
C6_Witness ==
    /\ NoRelayFault
    /\ \E a \in Relays, b \in Relays :
        a # b /\ rpubIds[a] # {} /\ rpubIds[b] # {}

(***************************************************************************)
(* Properties of the messaging worker (WaSpec, WaFair)                     *)
(***************************************************************************)
\* C9: every failed send increments the envelope's retry_count: an outbound
\* message that is still unacknowledged after k failed sends carries a
\* retry_count of at least k.
C9_FailureIncrementsRetryCount ==
    \A m \in DOMAIN waStream["out"] :
        (failedSends[m] > 0 /\ m \notin waAcked["out"])
            => RetryCount(m) >= failedSends[m]

\* C10: a message claimed by the reclaim loop is processed by the normal loop
\* on a later pass and is eventually acknowledged (after success or after its
\* entry in the dead-letter queue).
C10_ClaimedEventuallyAcked ==
    \A s \in WaStreams : \A m \in MsgIds :
        (m \in claimed[s]) ~> (m \in waAcked[s])

(***************************************************************************)
(* Properties of the messaging handlers (HandlerSpec, OutboundSpec,        *)
(* InboundSpec)                                                            *)
(***************************************************************************)
\* C11: for a phone with an active opt-out, no outbound message row is set
\* to sent after the opt-out row was created, under any interleaving of the
\* inbound and outbound loops (late: the opt-out row of the row's phone was
\* committed when the row was set to sent)
C11_NoSentAfterOptOut ==
    \A r \in messages : (r.dir = "out" /\ r.status = "sent") => ~r.late

\* worker w's handler returns in this step (it did not crash)
InboundReturns(w) ==
    waPc[w] = "commit" /\ waPc'[w] # "commit" /\ mfaults' = mfaults
SendBeginRuns(w) ==
    /\ waPc[w] = "out" /\ mfaults' = mfaults
    /\ (waPc'[w] = "send" \/ waBatch'[w] # waBatch[w])

\* C12: processing an inbound opt-out keyword leaves the opt-out row of its
\* phone committed, the conversation in state opted_out and an opted_out event
\* published; an outbound envelope for an opted-out phone that is processed
\* afterwards ends "blocked", is acknowledged and creates no message row
C12_OptOutRecordedThenBlocked ==
    [][\A w \in WaWorkers :
        /\ (InboundReturns(w) /\ InEnvelope(w).kw = "stop") =>
              /\ InEnvelope(w).phone \in optouts'
              /\ convs'[InEnvelope(w).phone] = "opted_out"
              /\ bus'[<<"opted_out", InEnvelope(w).pmid>>] >= 1
        /\ (SendBeginRuns(w) /\ OutEnvelope(w).phone \in optouts) =>
              /\ WaHead(w) \in DOMAIN result'["out"]
              /\ result'["out"][WaHead(w)] = "blocked"
              /\ WaHead(w) \in waAcked'["out"]
              /\ messages' = messages
      ]_vars

\* the committed row of outbound stream entry m has status st
OutRowIs(m, st) ==
    \E r \in messages : r.dir = "out" /\ r.env = m /\ r.status = st
OnDlq(m) == \E i \in DOMAIN dlq : dlq[i].original_event = m

C14_ConfigFailureIsAcked ==
    \A m \in DOMAIN result["out"] :
        binding # "ok" =>
            /\ m \in waAcked["out"]
            /\ m \notin DOMAIN waPel["out"]

\* C15: when the provider reported a non-retryable failure, the message row
\* is failed, delivery_failed is published, the envelope is on the DLQ at once
\* (whatever its retry_count) and it is acknowledged
C15_PermanentFailureGoesToDlq ==
    \A m \in DOMAIN calls :
        calls[m] = "permanent" =>
            /\ OutRowIs(m, "failed")
            /\ bus[<<"delivery_failed", m>>] >= 1
            /\ OnDlq(m)
            /\ m \in waAcked["out"]

\* C16: whenever a provider call is in flight, a pending outbound row of its
\* envelope is committed and the calling worker's session has no open
\* transaction and no unwritten row; when the call returns the row is sent or
\* failed and that transaction is over; when the worker dies during the call
\* the pending row stays in the database
C16_PendingRowAroundProviderCall ==
    [][\A w \in WaWorkers :
        /\ (waPc[w] = "send" =>
               /\ OutRowIs(WaHead(w), "pending")
               /\ ~sess[w].open
               /\ sess[w].msgs = {})'
        /\ (waPc[w] = "send" /\ waPc'[w] # "send") =>
               IF mfaults' = mfaults
               THEN /\ \E r \in messages' : /\ r.dir = "out" /\ r.env = WaHead(w)
                                             /\ r.status \in {"sent", "failed"}
                    /\ \A r \in messages' : r.dir = "out" /\ r.env = WaHead(w)
                                                => r.status # "pending"
                    /\ ~sess'[w].open
               ELSE \E r \in messages' : /\ r.dir = "out" /\ r.env = WaHead(w)
                                         /\ r.status = "pending"
      ]_vars

\* one provider call was answered and the worker of another one died during
\* the call, leaving its pending row
C16_Witness ==
    /\ mfaults > 0
    /\ \E m \in DOMAIN calls : ~OutRowIs(m, "pending")
    /\ \E m \in DOMAIN waStream["out"] :
          /\ OutRowIs(m, "pending")
          /\ \A w \in WaWorkers : waPc[w] # "send"

\* auto-replies queued on the outbound stream for inbound message pmid
AutoReplies(pmid) ==
    {i \in DOMAIN waStream["out"] :
        waStream["out"][i].kw = "reply" /\ waStream["out"][i].pmid = pmid}

\* C17: however often an inbound message (one provider message id) is put on
\* the stream and handled, one after the other or by two replicas at once,
\* there is at most one inbound row for it and its automation outputs (the
\* opted_out event, action_requested, the auto-reply) are published only once
C17_DuplicateInboundHandledOnce ==
    \A pmid \in ProviderIds :
        /\ Cardinality({r \in messages : r.dir = "in" /\ r.pmid = pmid}) <= 1
        /\ bus[<<"opted_out", pmid>>] <= 1
        /\ bus[<<"action_requested", pmid>>] <= 1
        /\ Cardinality(AutoReplies(pmid)) <= 1

\* C18: an inbound message is acknowledged only when its database work is
\* committed (or it was skipped because a row with its provider id is already
\* stored); a message whose database work failed and was rolled back is not
\* acknowledged and stays in the pending list
C18_InboundAckOnlyAfterCommit ==
    /\ \A m \in waAcked["in"] : is_message_processed(waStream["in"][m].pmid)
    /\ \A m \in DOMAIN result["in"] :
          result["in"][m] = "failed" =>
              m \notin waAcked["in"] /\ m \in DOMAIN waPel["in"]

(***************************************************************************)
(* Properties of the notification loop (NotifySpec)                        *)
(***************************************************************************)
\* C19: the notification loop acknowledges every message it has handled,
\* whether the handler queued a notification, skipped the event or raised;
\* and every notification on the outbound stream was triggered by an event
\* whose type is in VERTICAL_EVENTS_TO_NOTIFY, that carries a customer phone,
\* for a tenant with an active binding
C19_NotifyAcksAllPublishesAllowed ==
    /\ \A m \in DOMAIN result["vertical"] :
          m \in waAcked["vertical"] /\ m \notin DOMAIN waPel["vertical"]
    /\ \A i \in DOMAIN waStream["out"] :
          waStream["out"][i].kw = "notify" =>
             LET e == waStream["vertical"][waStream["out"][i].pmid]
             IN /\ e.kw \in {"quote_created", "order_status_changed"}
                /\ e.phone # NoOne
                /\ e.phone = waStream["out"][i].phone
                /\ binding # "none"

\* a notification was queued, another event's handler raised and a third kind
\* of event was ignored or skipped: all acknowledged
C19_Witness ==
    /\ \E i \in DOMAIN waStream["out"] : waStream["out"][i].kw = "notify"
    /\ \E m \in DOMAIN result["vertical"] :
          result["vertical"][m] # "queued" /\ m \in waAcked["vertical"]

(***************************************************************************)
(* Properties of the engine worker on unknown event types (RouterSpec)     *)
(***************************************************************************)
\* C20: while a worker handles a message whose event type the router does
\* not know (event 4), no step of it changes a projection table; the router
\* passes it on to mark_event_processed without calling an engine; the
\* message is acknowledged only with its processed key committed; and the
\* worker can always take its next step on it unless another transaction
\* holds the same key, so the messages behind it are not held up
C20_UnknownEventIsNoOp ==
    /\ [](\A w \in Workers :
            (pc[w] \in {"check", "mark", "commit", "ack"} /\ CurEvent(w) = 4) =>
                \/ ENABLED (Check(w) \/ Mark(w) \/ Commit(w) \/ Ack(w))
                \/ MarkWaits(w, 4))
    /\ [][\A w \in Workers :
            (/\ pc[w] # "idle" /\ batch[w] # <<>> /\ CurEvent(w) = 4
             /\ (pc'[w] # pc[w] \/ batch'[w] # batch[w])) =>
                /\ UNCHANGED <<salesFacts, stockFacts, alerts, sugg>>
                /\ (pc[w] = "check" /\ efaults' = efaults) => pc'[w] \in {"mark", "ack"}
                /\ acked' # acked => 4 \in processed'
       ]_vars

\* the unknown event and the sale behind it were both handled and acknowledged
C20_Witness ==
    \E m, n \in acked :
        /\ m < n /\ stream[m] = 4 /\ stream[n] = 1
        /\ {1, 4} \subseteq processed
        /\ ~HasProjectionRows(4)

(***************************************************************************)
(* Stock engine with quantities (engines/stock.py, persistence/repo.py),   *)
(* for one product of one tenant and one worker.  Quantities are whole     *)
(* units and Decimal arithmetic is taken as exact: the average daily sales *)
(* total / 90 is kept as its numerator total, and minimum_stock            *)
(* = total / 90 * 7 * (1 + 20 / 100) as 9000 times its value.              *)
(* occurred_at is a day number.  The k-th sale is handled on day 100 + k   *)
(* and its delivered_at is that day, or day k (more than 90 days back).    *)
(* A stock fact that was there before the first sale is dated day 0.       *)
(***************************************************************************)
\* quantities of the line items, and stock levels left by an earlier fact
Quantities == {5, 7, 10, 450}
SeedStock == {5, 50, 485, 490}

DAYS == 90
DEFAULT_LEAD_TIME_DAYS == 7
DEFAULT_SAFETY_STOCK_PERCENT == 20

\* int(x) of a quotient a / b with b > 0: the fraction is cut off
IntOf(a, b) == IF a >= 0 THEN a \div b ELSE -((-a) \div b)

\* func.sum over a column of a set of rows
SumOf(R, col(_)) ==
    LET RECURSIVE sum(_)
        sum(T) == IF T = {} THEN 0
                  ELSE LET r == CHOOSE x \in T : TRUE IN col(r) + sum(T \ {r})
    IN sum(R)

\* the row ORDER BY occurred_at DESC puts first
LatestFact(F) == CHOOSE f \in F : \A g \in F : g.at <= f.at

\* get_current_stock: quantity_after of the latest fact when that is truthy
\* (a zero is not), else the sum of all deltas
get_current_stock(F) ==
    IF F # {} /\ LatestFact(F).after # 0
    THEN LatestFact(F).after
    ELSE LET Delta(r) == r.delta IN SumOf(F, Delta)

\* get_average_daily_sales times DAYS: the quantities sold since date_limit
get_average_daily_sales(S, now) ==
    LET Qty(r) == r.qty IN SumOf({r \in S : r.at >= now - DAYS}, Qty)

\* (variant: the stock after the sale is not clamped at zero)
new_stock_unclamped(cur, q) == cur - q

\* process_sale_recorded: new_stock = current_stock - quantity, not below 0
new_stock(cur, q) == IF cur - q < 0 THEN 0 ELSE cur - q

\* _compute_stock_alert on what the repository returned; wrote: it reached
\* upsert_stock_alert
compute_stock_alert(cur, total) ==
    LET min9000 == total * DEFAULT_LEAD_TIME_DAYS * (100 + DEFAULT_SAFETY_STOCK_PERCENT)
        days == IntOf(cur * DAYS, total)
    IN IF total <= 0 \/ cur * DAYS * 100 >= min9000
       THEN [cur |-> cur, total |-> total, wrote |-> FALSE, minimum |-> 0,
             days |-> 0, risk |-> NoOne]
       ELSE [cur |-> cur, total |-> total, wrote |-> TRUE, minimum |-> min9000,
             days |-> days,
             risk |-> IF days <= 7 THEN "alto"
                      ELSE IF days <= 14 THEN "medio" ELSE "baixo"]

\* upsert_stock_alert: the existing active row is overwritten, else a row is
\* added; days_until_rupture is stored only when it is truthy ({}: NULL)
upsert_stock_alert(rows, a) ==
    {[risk |-> a.risk, current |-> a.cur, minimum |-> a.minimum,
      days |-> IF a.days # 0 THEN {a.days} ELSE {}]}

\* StockIntelligenceEngine.process_sale_recorded for an event with one line
\* item of the product, committed
process_sale_recorded(q, old) ==
    /\ Cardinality(saleRows) < MaxSales
    /\ LET k == Cardinality(saleRows) + 1
           at == IF old THEN k ELSE 100 + k
           fact == [ev |-> k, at |-> at, delta |-> -q,
                    after |-> new_stock(get_current_stock(stockRows), q)]
           F == stockRows \cup {fact}
           S == saleRows \cup {[ev |-> k, at |-> at, qty |-> q]}
           a == compute_stock_alert(get_current_stock(F),
                                    get_average_daily_sales(S, 100 + k))
       IN /\ saleRows' = S
          /\ stockRows' = F
          /\ lastCompute' = {a}
          /\ alertRow' = IF a.wrote THEN upsert_stock_alert(alertRow, a) ELSE alertRow
    /\ UNCHANGED <<engineVars, relayVars, waVars, msgVars, fx, tenantVars, lateVars>>

\* the tables before the first sale: no stock fact, or one that left a stock
StockInit ==
    /\ EngineStart /\ RelayStart /\ WaStart /\ MsgStart
    /\ \/ stockRows = {}
       \/ \E s \in SeedStock :
            stockRows = {[ev |-> 0, at |-> 0, delta |-> s, after |-> s]}
    /\ saleRows = {}
    /\ alertRow = {}
    /\ lastCompute = {}
    /\ fx = {}
    /\ TenantStart
    /\ LateStart

StockNext == \E q \in Quantities, old \in BOOLEAN : process_sale_recorded(q, old)

StockSpec == StockInit /\ [][StockNext]_vars

(***************************************************************************)
(* The engines over two tenants (handlers/router.py, engines/stock.py,     *)
(* engines/sales.py, persistence/repo.py).  Both tenants sell the same     *)
(* product ids; every row carries the tenant of the repository that wrote  *)
(* it and the event that wrote it last.  A sale event is handled by one    *)
(* worker from the stock engine to the sales engine's commit; its line     *)
(* items all have the same quantity.  Days are counted as in StockSpec.    *)
(***************************************************************************)
Tenants == {"tA", "tB"}
MaxTenantEvents == 3
TenantQuantities == {5, 450}
TenantSeed == 455

\* (variant: a query without the tenant_id filter)
OfTenant_unscoped(R, t) == R

\* .filter(X.tenant_id == self.tenant_id) of the repository's queries
OfTenant(R, t) == {r \in R : r.tenant = t}

\* ... X.product_id == product_id
OfProduct(R, t, p) == {r \in OfTenant(R, t) : r.product = p}

\* _update_product_associations for one product p of the order: the rows
\* upsert_sales_suggestion writes, S being the sales facts
product_associations(S, t, p, now, k) ==
    LET order_ids == {r.order : r \in {x \in OfProduct(S, t, p) : x.at >= now - DAYS}}
        total_orders == Cardinality(order_ids)
        count(o) == Cardinality({ord \in order_ids :
                        \E r \in OfTenant(S, t) :
                            r.order = ord /\ r.product = o /\ r.product # p})
    IN {[tenant |-> t, source |-> p, suggested |-> o, ev |-> k,
         co_occurrences |-> count(o), total_orders |-> total_orders,
         priority |-> IF count(o) * 100 >= 70 * total_orders THEN "alta"
                      ELSE IF count(o) * 100 >= 40 * total_orders THEN "media"
                      ELSE "baixa"] :
          o \in {x \in Products : /\ count(x) > 0
                                  /\ count(x) * 100 >= 20 * total_orders}}

\* upsert_sales_suggestion: the active row of the same tenant, source and
\* suggested product is overwritten, else the row is added
upsert_sales_suggestion(rows, t, new) ==
    {r \in rows : ~\E n \in new : /\ r \in OfTenant(rows, t)
                                  /\ r.source = n.source
                                  /\ r.suggested = n.suggested} \cup new

\* EventRouter.handle for the k-th sale_recorded event, of tenant t with line
\* items I of quantity q: the stock engine, then the sales engine
handle_sale_recorded(t, I, q, old) ==
    /\ Len(handled) < MaxTenantEvents
    /\ LET k == Len(handled) + 1
           now == 100 + k
           at == IF old THEN k ELSE now
           S == saleRows \cup {[tenant |-> t, product |-> p, order |-> k,
                                ev |-> k, at |-> at, qty |-> q] : p \in I}
           F == stockRows \cup
                  {[tenant |-> t, product |-> p, ev |-> k, at |-> at, delta |-> -q,
                    after |-> new_stock(get_current_stock(OfProduct(stockRows, t, p)), q)] :
                      p \in I}
           alert(p) == compute_stock_alert(get_current_stock(OfProduct(F, t, p)),
                           get_average_daily_sales(OfProduct(S, t, p), now))
           wrote == {p \in I : alert(p).wrote}
       IN /\ saleRows' = S
          /\ stockRows' = F
          /\ alertRow' =
               {r \in alertRow : ~(r \in OfTenant(alertRow, t) /\ r.product \in wrote)}
                 \cup UNION {{[tenant |-> t, product |-> p, ev |-> k, row |-> a] :
                                a \in upsert_stock_alert(
                                        {r.row : r \in OfProduct(alertRow, t, p)},
                                        alert(p))} : p \in wrote}
          /\ suggRows' =
               IF Cardinality(I) < 2 THEN suggRows
               ELSE upsert_sales_suggestion(suggRows, t,
                      UNION {product_associations(S, t, p, now, k) : p \in I})
          /\ handled' = Append(handled, [tenant |-> t, items |-> I, qty |-> q])
    /\ UNCHANGED <<engineVars, relayVars, waVars, msgVars, lastCompute, fx, lateVars>>

\* every product of every tenant starts with one stock fact
TenantInit ==
    /\ EngineStart /\ RelayStart /\ WaStart /\ MsgStart
    /\ stockRows = {[tenant |-> t, product |-> p, ev |-> 0, at |-> 0,
                     delta |-> TenantSeed, after |-> TenantSeed] :
                       t \in Tenants, p \in Products}
    /\ saleRows = {}
    /\ alertRow = {}
    /\ lastCompute = {}
    /\ fx = {}
    /\ TenantStart
    /\ LateStart

TenantNext ==
    \E t \in Tenants, I \in (SUBSET Products) \ {{}}, q \in TenantQuantities,
       old \in BOOLEAN : handle_sale_recorded(t, I, q, old)

TenantSpec == TenantInit /\ [][TenantNext]_vars

(***************************************************************************)
(* Webhook ingress and the envelope's stream encoding                      *)
(* (apps/whatsapp-webhook main.py, providers' verify_webhook_challenge,    *)
(* contracts/envelope.py).  Every behaviour is one call: a POST /webhook,  *)
(* a GET /webhook, or an envelope written to a stream record and read      *)
(* back.  An optional value (a missing query parameter, a None) is the     *)
(* empty set, a present one the set of its value.                          *)
(***************************************************************************)
\* bodies of a POST: not JSON at all, bytes that are not UTF-8, a JSON
\* document that is not an object ([] or null), an object of no known shape,
\* a Meta payload, an Evolution payload
Bodies == {"not_json", "not_utf8", "json_array", "unknown", "meta", "evolution"}
\* most messages and most statuses one payload parses into
MaxMessages == 2
MaxStatuses == 1
\* provider message ids of the parsed messages and statuses
MessageId(i) == <<"wamid.message", i>>
StatusId(i) == <<"wamid.status", i>>
WHATSAPP_VERIFY_TOKEN == "basecommerce_verify_token"

\* x or "" of Python on an optional string
OrEmpty(o) == IF o = {} THEN "" ELSE CHOOSE s \in o : TRUE

\* receive_webhook: r.secret says that the provider's secret (the app secret
\* for Meta, EVOLUTION_API_KEY for Evolution) is configured, r.valid that the
\* request's signature or key matches it, r.bound that a tenant binding is
\* found, r.raises names the step that raises: 0 none, 1 resolving the
\* tenant, 1 + k the k-th publish_inbound.  The answer is the HTTP status
\* and the correlation ids of the envelopes appended to the inbound stream.
receive_webhook(r) ==
    LET detect_provider == IF r.body = "meta" THEN "meta"
                           ELSE IF r.body = "evolution" THEN "evolution"
                           ELSE "unknown"
        items == [i \in 1..r.msgs |-> MessageId(i)]
                   \o [i \in 1..r.sts |-> StatusId(i)]
        upto == IF r.raises >= 2 /\ r.raises - 1 <= Len(items)
                THEN r.raises - 2 ELSE Len(items)
    IN  IF r.body = "not_json"
        THEN [status |-> 400, published |-> <<>>]
        \* json.loads raises UnicodeDecodeError, or payload.get raises
        \* AttributeError in detect_provider: neither is caught
        ELSE IF r.body \in {"not_utf8", "json_array"}
        THEN [status |-> 500, published |-> <<>>]
        ELSE IF detect_provider = "unknown"
        THEN [status |-> 200, published |-> <<>>]
        ELSE IF r.secret /\ ~r.valid
        THEN [status |-> 403, published |-> <<>>]
        ELSE IF r.raises = 1 \/ ~r.bound
        THEN [status |-> 200, published |-> <<>>]
        ELSE [status |-> 200, published |-> SubSeq(items, 1, upto)]

\* verify_webhook_challenge of the providers: the challenge or None ({})
verify_webhook_challenge_any_mode(provider, mode, token, challenge) ==
    IF provider = "meta"
    THEN IF token = WHATSAPP_VERIFY_TOKEN THEN {challenge} ELSE {}
    ELSE IF mode = "subscribe" THEN {challenge} ELSE {}

verify_webhook_challenge(provider, mode, token, challenge) ==
    IF provider = "meta"
    THEN IF mode = "subscribe" /\ token = WHATSAPP_VERIFY_TOKEN
         THEN {challenge} ELSE {}
    ELSE IF mode = "subscribe" THEN {challenge} ELSE {}

\* verify_webhook: get_provider gives the Meta adapter when WHATSAPP_PROVIDER
\* is "meta" and the stub adapter otherwise; an empty challenge is falsy
verify_webhook(q) ==
    LET get_provider == IF q.provider = "meta" THEN "meta" ELSE "stub"
        challenge == verify_webhook_challenge(get_provider, OrEmpty(q.mode),
                         OrEmpty(q.token), OrEmpty(q.challenge))
    IN  IF challenge # {} /\ challenge # {""}
        THEN [status |-> 200, content |-> challenge]
        ELSE [status |-> 403, content |-> {}]

\* str(version) and int(text) on the versions in use
VersionStr(v) == IF v = 1 THEN "1" ELSE "2"
VersionInt(s) == IF s = "1" THEN 1 ELSE 2
\* json.dumps and json.loads on a map of JSON values with string keys
json_dumps(v) == <<"json", v>>
json_loads(s) == s[2]

\* WhatsAppEnvelope.to_stream_data: every value a string
to_stream_data(e) ==
    [event_id |-> <<"str", e.event_id>>,
     event_type |-> e.event_type,
     tenant_id |-> <<"str", e.tenant_id>>,
     occurred_at |-> <<"iso", e.occurred_at>>,
     version |-> VersionStr(e.version),
     payload |-> json_dumps(e.payload),
     correlation_id |-> OrEmpty(e.correlation_id),
     metadata |-> json_dumps(e.metadata)]

\* WhatsAppEnvelope.from_stream_message
from_stream_message(msg_id, data) ==
    [event_id |-> data.event_id[2],
     event_type |-> data.event_type,
     tenant_id |-> data.tenant_id[2],
     occurred_at |-> data.occurred_at[2],
     version |-> VersionInt(data.version),
     payload |-> json_loads(data.payload),
     correlation_id |-> {data.correlation_id},
     metadata |-> [json_loads(data.metadata) EXCEPT !.stream_msg_id = {msg_id}]]

\* the requests and the envelopes of the calls
PostRequests ==
    [body : Bodies, secret : BOOLEAN, valid : BOOLEAN, bound : BOOLEAN,
     msgs : 0..MaxMessages, sts : 0..MaxStatuses,
     raises : 0..(MaxMessages + MaxStatuses + 1)]
GetRequests ==
    [provider : {"meta", "stub", "evolution"},
     mode : {{}, {"subscribe"}, {"unsubscribe"}},
     token : {{}, {WHATSAPP_VERIFY_TOKEN}, {"wrong"}},
     challenge : {{}, {"1158201444"}}]
Envelopes ==
    [event_id : {"e1"}, event_type : {"whatsapp.inbound.received"},
     tenant_id : {"t1"}, occurred_at : {1, 2}, version : {1, 2},
     payload : {[text |-> "oi"], [text |-> "status"]},
     correlation_id : {{}, {"wamid.1"}},
     metadata : [retry_count : {{}, {1}}, stream_msg_id : {{}, {"1-0"}}]]

PostWebhook(r) ==
    /\ fx = {}
    /\ fx' = {[op |-> "post", in |-> r, out |-> receive_webhook(r)]}
    /\ UNCHANGED <<engineVars, relayVars, waVars, msgVars,
                   stockRows, saleRows, alertRow, lastCompute, tenantVars, lateVars>>

GetWebhook(q) ==
    /\ fx = {}
    /\ fx' = {[op |-> "get", in |-> q, out |-> verify_webhook(q)]}
    /\ UNCHANGED <<engineVars, relayVars, waVars, msgVars,
                   stockRows, saleRows, alertRow, lastCompute, tenantVars, lateVars>>

\* an envelope is written to a stream record, which the stream may carry
\* with one more field, and read back under the id the stream gave it
RoundTrip(e, msg_id, extra) ==
    /\ fx = {}
    /\ LET data == to_stream_data(e)
           read == IF extra THEN data @@ [vertical |-> "materials"] ELSE data
       IN fx' = {[op |-> "roundtrip", in |-> e, id |-> msg_id,
                  out |-> from_stream_message(msg_id, read)]}
    /\ UNCHANGED <<engineVars, relayVars, waVars, msgVars,
                   stockRows, saleRows, alertRow, lastCompute, tenantVars, lateVars>>

IngressInit ==
    /\ EngineStart /\ RelayStart /\ WaStart /\ MsgStart /\ CalcStart

IngressNext ==
    \/ \E r \in PostRequests : PostWebhook(r)
    \/ \E q \in GetRequests : GetWebhook(q)
    \/ \E e \in Envelopes, msg_id \in {"1-0", "2-0"}, extra \in BOOLEAN :
          RoundTrip(e, msg_id, extra)

IngressSpec == IngressInit /\ [][IngressNext]_vars

(***************************************************************************)
(* Automation engine (service/automation.py), one call per behaviour.      *)
(* A text is the set of the words in it, or absent; _matches looks a       *)
(* keyword up in the text between word boundaries.                         *)
(***************************************************************************)
Words == {"stop", "orcamento", "status", "ajuda", "oi"}
OPTOUT_KEYWORDS == {"stop"}
\* INTENT_KEYWORDS, in the order of the dict
INTENT_KEYWORDS ==
    <<[intent |-> "create_quote", keywords |-> {"orcamento"}],
      [intent |-> "order_status", keywords |-> {"status"}],
      [intent |-> "talk_to_human", keywords |-> {"ajuda"}]>>
\* BUTTON_INTENTS.get(button_payload): the intent, or {} for None
BUTTON_INTENTS(b) ==
    IF b \in {"btn_quote", "create_quote"} THEN {"create_quote"}
    ELSE IF b \in {"btn_status", "order_status"} THEN {"order_status"}
    ELSE IF b \in {"btn_human", "talk_to_human"} THEN {"talk_to_human"}
    ELSE {}

\* AutomationEngine.detect: text and button_payload are optional
detect(text, button_payload) ==
    LET none == [is_optout |-> FALSE, intent |-> {}]
        button == IF button_payload \in {{}, {""}} THEN {}
                  ELSE BUTTON_INTENTS(OrEmpty(button_payload))
        words == IF text = {} THEN {} ELSE CHOOSE w \in text : TRUE
        hits == {i \in 1..Len(INTENT_KEYWORDS) :
                    INTENT_KEYWORDS[i].keywords \cap words # {}}
    IN IF button # {} THEN [is_optout |-> FALSE, intent |-> button]
       ELSE IF words = {} THEN none
       ELSE IF OPTOUT_KEYWORDS \cap words # {} THEN [is_optout |-> TRUE, intent |-> {}]
       ELSE IF hits # {}
       THEN [is_optout |-> FALSE,
             intent |-> {INTENT_KEYWORDS[CHOOSE i \in hits : \A j \in hits : i <= j].intent}]
       ELSE none

\* (variant: a new conversation is welcomed before the intent is looked at)
should_auto_reply_welcome_first(is_new_conversation, detection, tenant_config) ==
    IF detection.is_optout THEN {"opt_out_confirmed"}
    ELSE IF is_new_conversation THEN {"welcome"}
    ELSE IF detection.intent = {"talk_to_human"} THEN {"human_requested"}
    ELSE {"received"}

\* AutomationEngine.should_auto_reply: the reply type, or {} for None;
\* tenant_config is None ({}) or a dict, here the set of its
\* auto_reply_enabled entry (none, or one truth value)
should_auto_reply(is_new_conversation, detection, tenant_config) ==
    IF detection.is_optout THEN {"opt_out_confirmed"}
    ELSE IF detection.intent = {"talk_to_human"} THEN {"human_requested"}
    ELSE IF is_new_conversation THEN {"welcome"}
    ELSE LET config == IF tenant_config = {} THEN {} ELSE CHOOSE c \in tenant_config : TRUE
         IN IF config = {} \/ config = {TRUE} THEN {"received"} ELSE {}

Intents == {"create_quote", "order_status", "talk_to_human"}
Buttons == {{}, {""}, {"btn_status"}, {"btn_human"}, {"create_quote"}, {"btn_other"}}
Texts == {{}} \cup {{w} : w \in SUBSET Words}
Detections == [is_optout : BOOLEAN, intent : {{}} \cup {{i} : i \in Intents}]
\* process_message, the caller of should_auto_reply, passes no tenant_config
TenantConfigs == {{}}

Detect(text, button_payload) ==
    /\ fx = {}
    /\ fx' = {[op |-> "detect", text |-> text, button_payload |-> button_payload,
               out |-> detect(text, button_payload)]}
    /\ UNCHANGED <<engineVars, relayVars, waVars, msgVars,
                   stockRows, saleRows, alertRow, lastCompute, tenantVars, lateVars>>

ShouldAutoReply(is_new, detection, tenant_config) ==
    /\ fx = {}
    /\ fx' = {[op |-> "should_auto_reply", is_new |-> is_new, detection |-> detection,
               tenant_config |-> tenant_config,
               out |-> should_auto_reply(is_new, detection, tenant_config)]}
    /\ UNCHANGED <<engineVars, relayVars, waVars, msgVars,
                   stockRows, saleRows, alertRow, lastCompute, tenantVars, lateVars>>

AutomationInit ==
    /\ EngineStart /\ RelayStart /\ WaStart /\ MsgStart /\ CalcStart

AutomationNext ==
    \/ \E text \in Texts, button_payload \in Buttons : Detect(text, button_payload)
    \/ \E is_new \in BOOLEAN, detection \in Detections, tenant_config \in TenantConfigs :
          ShouldAutoReply(is_new, detection, tenant_config)

AutomationSpec == AutomationInit /\ [][AutomationNext]_vars

(***************************************************************************)
(* Shutdown of the relay and of the engine worker (outbox-relay main.py,   *)
(* engines_worker main.py, engines_core/consumer.py).  The engine worker   *)
(* is one process with two threads: the main thread runs the consume loop, *)
(* a daemon thread runs the reclaim loop.  When main() returns the process *)
(* exits and its daemon thread ends wherever it is.  An entry is new,      *)
(* pending (delivered or claimed), handling (process_stream_message runs), *)
(* committed (its transaction is committed, the entry not acknowledged)    *)
(* or acked.                                                               *)
(***************************************************************************)
MaxRelayBatches == 2
Threads == {"main", "reclaim"}

procFrame ==
    UNCHANGED <<engineVars, relayVars, waVars, msgVars, stockRows, saleRows,
                alertRow, lastCompute, fx, tenantVars, conc, dlv>>

\* signal_handler: SIGTERM or SIGINT sets shutdown_requested of the process
signal_handler ==
    /\ ~proc.flag
    /\ proc' = [proc EXCEPT !.flag = TRUE]
    /\ procFrame

\* relay main loop: while not shutdown_requested, relay_batch selects and
\* appends ...
RelayLoopBatch ==
    /\ proc.relay = "loop" /\ ~proc.flag
    /\ proc.batches < MaxRelayBatches
    /\ proc' = [proc EXCEPT !.relay = "batch"]
    /\ procFrame

\* ... and marks the rows and commits
RelayLoopCommit ==
    /\ proc.relay = "batch"
    /\ proc' = [proc EXCEPT !.relay = "loop", !.batches = @ + 1]
    /\ procFrame

\* the loop condition is false: main() of the relay returns
RelayLoopExit ==
    /\ proc.relay = "loop" /\ proc.flag
    /\ proc' = [proc EXCEPT !.relay = "exited"]
    /\ procFrame

\* consume loop: while not shutdown_requested, consume_from_stream reads the
\* new entries
MainConsume ==
    /\ proc.main = "loop" /\ ~proc.flag
    /\ LET new == {m \in ShutMsgs : proc.st[m] = "new"}
       IN /\ new # {}
          /\ proc' = [proc EXCEPT
                !.main = "batch",
                !.batch["main"] = SetToSeq(new),
                !.st = [m \in ShutMsgs |-> IF m \in new THEN "pending" ELSE @[m]],
                !.by = [m \in ShutMsgs |-> IF m \in new THEN "main" ELSE @[m]]]
    /\ procFrame

\* run_reclaim_loop: after its sleep, with the flag not set,
\* reclaim_pending_messages claims the idle pending entries
ReclaimPass ==
    /\ proc.main # "exited"
    /\ proc.reclaim = "sleep" /\ ~proc.flag
    /\ LET idle == {m \in ShutMsgs : proc.st[m] = "pending" /\ proc.by[m] = "gone"}
       IN /\ idle # {}
          /\ proc' = [proc EXCEPT
                !.reclaim = "batch",
                !.batch["reclaim"] = SetToSeq(idle),
                !.by = [m \in ShutMsgs |-> IF m \in idle THEN "reclaim" ELSE @[m]]]
    /\ procFrame

\* run_reclaim_loop sees the flag during its sleep and returns
ReclaimReturn ==
    /\ proc.main # "exited"
    /\ proc.reclaim = "sleep" /\ proc.flag
    /\ proc' = [proc EXCEPT !.reclaim = "returned"]
    /\ procFrame

ThreadAt(th) == IF th = "main" THEN proc.main ELSE proc.reclaim

\* the loop over the entries of a batch: process_stream_message starts,
ThreadHandle(th) ==
    /\ proc.main # "exited"
    /\ ThreadAt(th) = "batch"
    /\ proc.st[Head(proc.batch[th])] = "pending"
    /\ proc' = [proc EXCEPT !.st[Head(proc.batch[th])] = "handling"]
    /\ procFrame

\* commits,
ThreadCommit(th) ==
    /\ proc.main # "exited"
    /\ ThreadAt(th) = "batch"
    /\ proc.st[Head(proc.batch[th])] = "handling"
    /\ proc' = [proc EXCEPT !.st[Head(proc.batch[th])] = "committed"]
    /\ procFrame

\* and the entry is acknowledged; after the last entry the call returns
ThreadAck(th) ==
    /\ proc.main # "exited"
    /\ ThreadAt(th) = "batch"
    /\ proc.st[Head(proc.batch[th])] = "committed"
    /\ LET rest == Tail(proc.batch[th])
           at == IF rest # <<>> THEN "batch" ELSE IF th = "main" THEN "loop" ELSE "sleep"
       IN proc' = [proc EXCEPT
             !.st[Head(proc.batch[th])] = "acked",
             !.batch[th] = rest,
             !.main = IF th = "main" THEN at ELSE @,
             !.reclaim = IF th = "reclaim" THEN at ELSE @]
    /\ procFrame

\* the consume loop's condition is false: main() returns without joining the
\* reclaim thread (threading.Thread(..., daemon=True)), the process exits
MainExit ==
    /\ proc.main = "loop" /\ proc.flag
    /\ proc' = [proc EXCEPT
          !.main = "exited",
          !.reclaim = IF @ = "returned" THEN "returned" ELSE "killed"]
    /\ procFrame

ShutdownInit ==
    /\ EngineStart /\ RelayStart /\ WaStart /\ MsgStart /\ CalcStart

ShutdownNext ==
    \/ signal_handler
    \/ RelayLoopBatch \/ RelayLoopCommit \/ RelayLoopExit
    \/ MainConsume \/ ReclaimPass \/ ReclaimReturn
    \/ \E th \in Threads : ThreadHandle(th) \/ ThreadCommit(th) \/ ThreadAck(th)
    \/ MainExit

ShutdownSpec == ShutdownInit /\ [][ShutdownNext]_vars

(***************************************************************************)
(* Two engine workers handling sales of one product at once                *)
(* (engines/stock.py, persistence/repo.py), READ COMMITTED: a worker reads *)
(* the committed stock facts and its own, and its rows are seen by the     *)
(* other worker after its commit.  Sale e was delivered on day 100 + e;    *)
(* the product starts with one stock fact.                                 *)
(***************************************************************************)
RaceSales == {1, 2}
RaceQuantities == {5, 7, 10}
RaceSeed == {12, 50}
Idle == [pc |-> "idle"]

\* sale events being handled or handled
RaceTaken ==
    {r.ev : r \in saleRows} \cup {conc[w].ev : w \in {v \in Workers : conc[v].pc # "idle"}}

\* the consumer group delivers sale e to one worker, which runs
\* process_sale_recorded up to its commit: record_sales_fact,
\* get_current_stock, record_stock_fact
RaceHandle(w, e, q) ==
    /\ conc[w].pc = "idle"
    /\ e \notin RaceTaken
    /\ conc' = [conc EXCEPT ![w] =
          [pc |-> "commit", ev |-> e,
           sale |-> [ev |-> e, at |-> 100 + e, qty |-> q],
           fact |-> [ev |-> e, at |-> 100 + e, delta |-> -q,
                     after |-> new_stock(get_current_stock(stockRows), q)]]]
    /\ UNCHANGED <<engineVars, relayVars, waVars, msgVars, stockRows, saleRows,
                   alertRow, lastCompute, fx, tenantVars, proc, dlv>>

\* self.db.commit() of process_sale_recorded
RaceCommit(w) ==
    /\ conc[w].pc = "commit"
    /\ stockRows' = stockRows \cup {conc[w].fact}
    /\ saleRows' = saleRows \cup {conc[w].sale}
    /\ conc' = [conc EXCEPT ![w] = Idle]
    /\ UNCHANGED <<engineVars, relayVars, waVars, msgVars,
                   alertRow, lastCompute, fx, tenantVars, proc, dlv>>

RaceInit ==
    /\ EngineStart /\ RelayStart /\ WaStart /\ MsgStart
    /\ \E s \in RaceSeed :
          stockRows = {[ev |-> 0, at |-> 0, delta |-> s, after |-> s]}
    /\ saleRows = {}
    /\ alertRow = {}
    /\ lastCompute = {}
    /\ fx = {}
    /\ TenantStart
    /\ LateStart

RaceNext ==
    \E w \in Workers :
        \/ \E e \in RaceSales, q \in RaceQuantities : RaceHandle(w, e, q)
        \/ RaceCommit(w)

RaceSpec == RaceInit /\ [][RaceNext]_vars

(***************************************************************************)
(* Delivery status updates (inbound_handler.py handle_delivery_status,     *)
(* repo.py update_message_status).  The webhook receiver forwards every    *)
(* status entry of the provider's payload, with the status string as the   *)
(* provider wrote it.                                                      *)
(***************************************************************************)
MaxStatusUpdates == 3
ProviderMessageIds == {1, 2, 3}
StatusStrings == {"sent", "delivered", "read", "failed", "deleted"}

\* new_status = status_map.get(status.status, MessageStatus.SENT), which
\* update_message_status writes over the row's status
status_map(st, old) ==
    IF st \in {"sent", "delivered", "read", "failed"} THEN st ELSE "sent"

\* get_message_by_provider_id
get_message_by_provider_id(id) == dlv.status[id] # "absent"

\* handle_delivery_status for one status update of the provider
handle_delivery_status(id, st) ==
    /\ Len(dlv.log) < MaxStatusUpdates
    /\ dlv' =
         IF ~get_message_by_provider_id(id)
         THEN [dlv EXCEPT !.log = Append(@, [id |-> id, st |-> st, res |-> "skipped"])]
         ELSE [status |-> [dlv.status EXCEPT ![id] = status_map(st, @)],
               log |-> Append(dlv.log, [id |-> id, st |-> st, res |-> "updated"]),
               events |-> IF status_map(st, dlv.status[id]) = "failed"
                          THEN dlv.events + 1 ELSE dlv.events]
    /\ UNCHANGED <<engineVars, relayVars, waVars, msgVars, stockRows, saleRows,
                   alertRow, lastCompute, fx, tenantVars, proc, conc>>

StatusInit ==
    /\ EngineStart /\ RelayStart /\ WaStart /\ MsgStart /\ CalcStart

StatusNext ==
    \E id \in ProviderMessageIds, st \in StatusStrings : handle_delivery_status(id, st)

StatusSpec == StatusInit /\ [][StatusNext]_vars

(***************************************************************************)
(* Projection tables of the engines                                        *)
(***************************************************************************)
\* C21: an entry that cannot be parsed is acknowledged by the consumer that
\* meets it and never stays in the pending list: a pending unparseable entry
\* is one that a worker still has in hand (or lost in a crash).
C21_PoisonNeverStaysPending ==
    \A m \in DOMAIN pel :
        ~Parseable(stream[m]) =>
            \/ \E w \in Workers : m \in Held(w)
            \/ m \in crashedMsgs

\* C22: after any sequence of sale events, handled by any number of worker
\* replicas at once, engine_stock_alerts holds at most one active row for a
\* product of the tenant.
C22_OneActiveAlertPerProduct ==
    \A p \in Products :
        /\ Cardinality({e \in Events : alerts[<<p, e>>] > 0}) <= 1
        /\ \A e \in Events : alerts[<<p, e>>] <= 1

\* C27: processing a stock_updated event appends a stock fact (movement
\* received or adjustment) for its product, so that the current stock derived
\* from the facts reflects receipts and adjustments as well as sales.
C27_StockUpdatedAppendsStockFact ==
    \A e \in processed :
        EventType(e) = "stock_updated" => \E k \in stockFacts : k[1] = e

\* C26: a complementary suggestion (source, suggested) is stored only for two
\* different products that an order holds together, and the table holds at
\* most one active row for the pair: a recomputation replaces the frequency
\* of that row.
C26_OneActiveSuggestionPerPair ==
    \A src \in Products, dst \in Products :
        /\ Cardinality({e \in Events : sugg[<<src, dst, e>>] > 0}) <= 1
        /\ \A e \in Events :
            /\ sugg[<<src, dst, e>>] <= 1
            /\ sugg[<<src, dst, e>>] > 0 => src # dst /\ {src, dst} \subseteq Items(e)

(***************************************************************************)
(* Stock alerts and stock facts with their quantities                      *)
(***************************************************************************)
\* the quantities sold in the last 90 days, on the day of the last sale
SoldInWindow ==
    LET Qty(r) == r.qty
    IN SumOf({r \in saleRows : r.at >= 100 + Cardinality(saleRows) - 90}, Qty)

\* C23: after a sale of the product has been processed, an active alert of
\* the product stores what the rule gives on the current facts: current_stock
\* is the quantity_after of the latest stock fact, minimum_stock is
\* avg_daily_sales * 7 * 1.20, days_until_rupture is
\* floor(current_stock / avg_daily_sales) (0 when the stock is 0) and the risk
\* is high up to 7 days, medium up to 14, else low.
C23_AlertEqualsFormula ==
    \A r \in alertRow :
        (saleRows # {} /\ SoldInWindow > 0) =>
            LET cur == LatestFact(stockRows).after
                days == (cur * 90) \div SoldInWindow
            IN /\ r.current = cur
               /\ r.minimum = SoldInWindow * 7 * 120
               /\ r.days = {days}
               /\ r.risk = IF days <= 7 THEN "alto"
                           ELSE IF days <= 14 THEN "medio" ELSE "baixo"

\* C24: _compute_stock_alert writes an alert exactly when avg_daily_sales > 0
\* and current_stock < avg_daily_sales * 7 * 1.20, and then uses
\* days_until_rupture = floor(current_stock / avg_daily_sales), risk high when
\* days <= 7, medium when days <= 14, else low.
C24_ComputeStockAlertRule ==
    \A c \in lastCompute :
        /\ c.wrote <=> (c.total > 0 /\ c.cur * 90 * 100 < c.total * 7 * 120)
        /\ c.wrote =>
            /\ c.days = (c.cur * 90) \div c.total
            /\ c.risk = IF c.days <= 7 THEN "alto"
                        ELSE IF c.days <= 14 THEN "medio" ELSE "baixo"

\* the quantity_after of the latest stock fact (0 with no fact)
LatestAfter == IF stockRows = {} THEN 0 ELSE LatestFact(stockRows).after

C28_PostStatusAndEnvelopes ==
    \A c \in fx : c.op = "post" =>
        LET r == c.in
            known == r.body \in {"meta", "evolution"}
        IN /\ c.out.status =
                IF r.body \in {"not_json", "not_utf8"} THEN 400
                ELSE IF known /\ r.secret /\ ~r.valid THEN 403
                ELSE 200
           /\ (c.out.status = 200 /\ known /\ r.bound /\ r.raises = 0) =>
                c.out.published = [i \in 1..r.msgs |-> MessageId(i)]
                                    \o [i \in 1..r.sts |-> StatusId(i)]

C30_StreamRoundTripPreservesEnvelope ==
    \A c \in fx : c.op = "roundtrip" => c.out = c.in

(***************************************************************************)
(* Tenant isolation of the engines                                         *)
(***************************************************************************)
\* what the engines compute and store for tenant t: the current stock and
\* the quantity sold in the 90 days before each day, per product, the
\* active stock alerts and the sales suggestions
TenantView(t) ==
    [stock |-> [p \in Products |-> get_current_stock(OfProduct(stockRows, t, p))],
     sold |-> [p \in Products |->
                 [now \in 100..(100 + MaxTenantEvents + 1) |->
                    get_average_daily_sales(OfProduct(saleRows, t, p), now)]],
     alerts |-> OfTenant(alertRow, t),
     suggestions |-> OfTenant(suggRows, t)]

\* the tenant of the event that wrote row r (a row of the start is its own)
WrittenFor(r) == IF r.ev = 0 THEN r.tenant ELSE handled[r.ev].tenant

\* C31: handling an event of one tenant leaves unchanged everything the
\* engines compute or store for every other tenant, and a query filtered by
\* a tenant returns only rows written for that tenant
C31_TenantScopedEngines ==
    [][/\ \A t \in Tenants :
            (Len(handled') > Len(handled) /\ handled'[Len(handled')].tenant # t)
               => TenantView(t)' = TenantView(t)
       /\ \A t \in Tenants :
            \A r \in OfTenant(stockRows', t) \cup OfTenant(saleRows', t)
                       \cup OfTenant(alertRow', t) \cup OfTenant(suggRows', t) :
               WrittenFor(r)' = t]_vars

\* tenant tA has an alert and a suggestion, and events of tenant tB were
\* handled before and after they were written
C31_Witness ==
    /\ Len(handled) = 3
    /\ handled[1].tenant = "tB" /\ handled[2].tenant = "tA" /\ handled[3].tenant = "tB"
    /\ handled[1].items = Products /\ handled[3].items = Products
    /\ OfTenant(alertRow, "tA") # {} /\ OfTenant(suggRows, "tA") # {}
    /\ OfTenant(alertRow, "tB") # {} /\ OfTenant(suggRows, "tB") # {}

(***************************************************************************)
(* Automation engine                                                       *)
(***************************************************************************)
\* what detect is to find: a button payload that maps to an intent wins over
\* any text; in a text an opt-out keyword wins over an intent keyword
DetectAsClaimed ==
    \A c \in fx : c.op = "detect" =>
        LET words == IF c.text = {} THEN {} ELSE CHOOSE w \in c.text : TRUE
            button == BUTTON_INTENTS(OrEmpty(c.button_payload))
        IN /\ button # {} => c.out = [is_optout |-> FALSE, intent |-> button]
           /\ (button = {} /\ "stop" \in words) =>
                 c.out = [is_optout |-> TRUE, intent |-> {}]
           /\ (button = {} /\ "stop" \notin words /\ words \cap {"orcamento", "status", "ajuda"} # {}) =>
                 (c.out.intent # {} /\ ~c.out.is_optout)

C33_ShutdownFinishesWorkInFlight ==
    [][/\ proc.flag => /\ proc.relay = "loop" => proc'.relay # "batch"
                       /\ \A th \in Threads :
                             proc.batch[th] = <<>> => proc'.batch[th] = <<>>
       /\ proc'.main = "exited" =>
             \A m \in ShutMsgs : proc'.st[m] \in {"new", "pending", "acked"}]_vars

(***************************************************************************)
(* Outbox rows under the relay                                             *)
(***************************************************************************)
\* C34: the relay deletes no outbox row and changes no column of a row but
\* published_at, which stays set once it is set; a row whose published_at is
\* set is in no batch selected later and is not appended again
C34_RelayOnlySetsPublishedAt ==
    [][/\ \A r \in Rows : rowStatus[r] # "absent" => rowStatus'[r] = rowStatus[r]
       /\ published \subseteq published'
       /\ \A r \in published :
            /\ Appends(r)' = Appends(r)
            /\ \A rep \in Relays :
                 rpc[rep] = "idle" =>
                    r \notin {rbatch'[rep][i] : i \in 1 .. Len(rbatch'[rep])}]_vars

\* an append has failed and a row is published; one replica relays a batch
\* whose first row is not appended yet while the other replica is idle
C34_Witness ==
    /\ faults.failed
    /\ published # {}
    /\ \E a \in Relays, b \in Relays :
         /\ a # b /\ rpc[a] = "publish" /\ rpc[b] = "idle"
         /\ rbatch[a] # <<>> /\ Appends(Head(rbatch[a])) = 0

(***************************************************************************)
(* Current stock                                                           *)
(***************************************************************************)
\* C35: get_current_stock returns the quantity_after of the stock fact with
\* the greatest occurred_at whenever there is a fact, also when that value is
\* 0, and so never a negative value after a sale: what _compute_stock_alert
\* read after the last sale is the quantity_after of the latest fact
C35_CurrentStockIsLatestQuantityAfter ==
    \A c \in lastCompute :
        /\ c.cur = LatestFact(stockRows).after
        /\ c.cur >= 0

(***************************************************************************)
(* Concurrent sales of one product                                         *)
(***************************************************************************)
\* C36: when the sale events delivered so far have all been processed, in
\* whatever order and by whichever replicas, the quantity_after of the
\* product's latest stock fact is max(0, initial stock - sum of the sold
\* quantities)
C36_NoDecrementLost ==
    (\A w \in Workers : conc[w].pc = "idle") =>
        LET Qty(r) == r.qty
            Seed(r) == IF r.ev = 0 THEN r.after ELSE 0
            left == SumOf(stockRows, Seed) - SumOf(saleRows, Qty)
        IN LatestFact(stockRows).after = IF left < 0 THEN 0 ELSE left

(***************************************************************************)
(* Outbound envelopes delivered again                                      *)
(***************************************************************************)
\* the message rows of outbound entry m that a successful provider send has
\* set to sent
SentRows(m) ==
    {i \in DOMAIN msgRows : msgRows[i].msg = m /\ msgRows[i].status = "sent"}

\* C37: an outbound envelope that was delivered again (claimed from the
\* pending list after a failed attempt, after idling, or while another
\* replica was still handling it) has at most one successful provider send
\* and at most one message row with status sent
C37_RedeliveredSentAtMostOnce ==
    \A m \in claimed["out"] : Cardinality(SentRows(m)) <= 1

\* an entry claimed by a reclaim pass while it was being handled, and sent
C37_Witness ==
    \E m \in claimed["out"] :
        /\ Cardinality(SentRows(m)) = 1
        /\ m \in waAcked["out"]

(***************************************************************************)
(* Order of the envelopes on the stream                                    *)
(***************************************************************************)
\* the position of the first envelope of row r on the stream
FirstAppend(r) ==
    CHOOSE i \in DOMAIN stream :
        /\ stream[i] = EventOf(r)
        /\ \A j \in 1 .. (i - 1) : stream[j] # EventOf(r)

\* C38: the first envelopes of two outbox rows are on the stream in the
\* order in which the rows were created, also after a failed append was
\* retried in a later batch and with several relay replicas
C38_StreamFollowsCreatedAt ==
    \A a, b \in Rows :
        (a < b /\ Appends(a) >= 1 /\ Appends(b) >= 1) =>
            FirstAppend(a) < FirstAppend(b)

(***************************************************************************)
(* Publications of the inbound handler and its transaction                 *)
(***************************************************************************)
\* the inbound handler has published something for inbound message pmid
PublishedFor(pmid) ==
    \/ bus[<<"opted_out", pmid>>] >= 1
    \/ bus[<<"action_requested", pmid>>] >= 1
    \/ AutoReplies(pmid) # {}

\* C39: the opted_out event, the action_requested event and the auto-reply
\* are on the bus only for inbound messages whose database work committed:
\* for a message whose transaction failed and was rolled back, and that no
\* other delivery stored, none of them has been published
C39_PublishedOnlyIfCommitted ==
    \A m \in DOMAIN result["in"] :
        (/\ result["in"][m] = "failed"
         /\ ~is_message_processed(waStream["in"][m].pmid)) =>
            ~PublishedFor(waStream["in"][m].pmid)

(***************************************************************************)
(* Delivery status of a message row                                        *)
(***************************************************************************)
\* C40: whatever status updates the provider sends and in whatever order,
\* handle_delivery_status never moves a message row from delivered or read
\* back to sent
C40_StatusNeverBackToSent ==
    [][\A id \in ProviderMessageIds :
          dlv.status[id] \in {"delivered", "read"} => dlv'.status[id] # "sent"]_vars

====
